---- MODULE Spec2Model ----
(***************************************************************************)
(* Session lifecycle, streak calculator and tick scheduler of poopbot.     *)
(* One chat is modelled; its database tables are the variables below, the  *)
(* scheduler's per-chat pipeline and the Q1 callback are coroutines that   *)
(* interleave at their transport calls, each inside its own transaction.   *)
(*                                                                         *)
(*   SpecStreak  the streak calculator applied to synthetic histories      *)
(*   Spec        the chat over MaxDay plain dates, observed around         *)
(*               midnight, at the post time and at the close cutoff        *)
(*   SpecNotify  the chat over the dates with recap, periodic statistics   *)
(*               and holiday notices, observed at the notification times   *)
(*   SpecFair    Spec's scheduler from a posted day on, with ticks that    *)
(*               keep running and transport calls that may always fail     *)
(*   SpecSweep   _tick over several chats, each transport call through     *)
(*               the retrying wrappers                                     *)
(*   SpecMsg     one session's messages at the transport: refresh,         *)
(*               self-heal and lock against deleted messages               *)
(*   SpecWindow  get_session_window at instants around its boundaries      *)
(*   SpecRate    check_rate_limit in handler transactions                  *)
(***************************************************************************)
EXTENDS Integers, Sequences, FiniteSets, TLC

\* ---------------------------------------------------------------- bounds
MaxDay == 3          \* local dates 1..MaxDay of the scheduler model
LastSlot == 2        \* the clock stops at the LastSlot-th observed minute of day MaxDay
HistDays == 4        \* local dates 1..HistDays of a synthetic streak history
MaxUsers == 1        \* users 1..MaxUsers
MaxSends == 2        \* transport sends counted per (date, kind)
MaxFaults == 1       \* transport failures and process restarts in a run
MaxPoops == 1        \* poops_n explored per user and session

Days == 1..MaxDay
Users == 1..MaxUsers
NoDate == -1         \* last_poop_date = None, a missing marker
NoRow == -1          \* no SessionUserState row

VARIABLES
    now,                 \* chat-local wall clock [d, t]: date and minute of day
    epoch,               \* which calendar the dates 1.. map onto
    is_enabled,          \* Chat.is_enabled
    notifications_enabled, \* Chat.notifications_enabled
    sessions,            \* Session rows [session_id, session_date, status]
    session_messages,    \* SessionMessage: <<session_id, kind>> -> message_id
    command_messages,    \* CommandMessage (user 0): <<command, date>> -> message_id
    user_states,         \* SessionUserState: <<session_id, user_id>> -> [poops_n]
    chat_members,        \* ChatMember user ids
    user_streaks,        \* UserStreak: user_id -> [current_streak, last_poop_date]
    streak_recalc_date,  \* the module-level marker _streak_recalc_date[chat]
    sent,                \* transport: messages sent per <<date, kind>>
    faults,              \* transport failures and restarts so far
    sch,                 \* the scheduler coroutine: pc, clock reads, write set
    hnd,                 \* the Q1 callback coroutine: pc, write set
    h,                   \* streak harness: last operation applied and its date
    chats,               \* SpecSweep: Chat and Session rows of every chat
    sweep,               \* SpecSweep: the _tick coroutine
    log,                 \* SpecSweep: what the running tick invoked and logged
    tg,                  \* SpecMsg: the messages of the chat at the transport
    op,                  \* SpecMsg: the coroutine that refreshes or locks them
    win,                 \* SpecWindow: an instant and its SessionWindow
    rate_limits,         \* SpecRate: RateLimit.last_action_at of one key
    rl,                  \* SpecRate: the handler invocations on that key
    utc,                 \* SpecRate: datetime.utcnow() in seconds
    poop_events,         \* SpecCount: PoopEvent rows [session_id, user_id, event_n]
    cb                   \* SpecCount: the last Q1 callback and its verdict

coreVars == <<now, epoch, is_enabled, notifications_enabled, sessions, session_messages,
              command_messages, user_states, chat_members, user_streaks,
              streak_recalc_date, sent, faults, sch, hnd, h>>
sweepVars == <<chats, sweep, log>>
msgVars == <<tg, op>>
windowVars == <<win>>
rateVars == <<rate_limits, rl, utc>>
countVars == <<poop_events, cb>>
auxVars == <<sweepVars, msgVars, windowVars, rateVars, countVars>>

vars == <<coreVars, auxVars>>

\* ------------------------------------------------------- streak calculator

\* states.get(user_id).poops_n if user_id in states else 0
poops_of(states, sid, uid) ==
    IF <<sid, uid>> \in DOMAIN states THEN states[<<sid, uid>>].poops_n ELSE 0

\* SessionUserState(session_id, user_id, poops_n, remind_22=False)
NewState(n) == [poops_n |-> n, remind_22 |-> FALSE]

\* st.poops_n = n on the row of (sid, uid), created when missing.
with_poops(states, sid, uid, n) ==
    IF <<sid, uid>> \in DOMAIN states
    THEN [states EXCEPT ![<<sid, uid>>].poops_n = n]
    ELSE [k \in DOMAIN states \cup {<<sid, uid>>} |->
            IF k = <<sid, uid>> THEN NewState(n) ELSE states[k]]

\* The per-user branch of _close_session's streak loop.
incremental_streak_bug(streak, poops, local_date) ==
    IF poops > 0
    THEN [current_streak |-> streak.current_streak + 1,
          last_poop_date |-> local_date]
    ELSE [current_streak |-> 0, last_poop_date |-> streak.last_poop_date]

incremental_streak(streak, poops, local_date) ==
    IF poops > 0
    THEN [current_streak |-> IF streak.last_poop_date = local_date - 1
                             THEN streak.current_streak + 1
                             ELSE 1,
          last_poop_date |-> local_date]
    ELSE [current_streak |-> 0, last_poop_date |-> streak.last_poop_date]

close_session_streaks_skip_absent(streaks, states, sid, local_date) ==
    [uid \in DOMAIN streaks |->
        IF <<sid, uid>> \in DOMAIN states
        THEN incremental_streak(streaks[uid], poops_of(states, sid, uid), local_date)
        ELSE streaks[uid]]

\* _close_session, the streak loop over every UserStreak row of the chat.
close_session_streaks(streaks, states, sid, local_date) ==
    [uid \in DOMAIN streaks |->
        incremental_streak(streaks[uid], poops_of(states, sid, uid), local_date)]

\* The join of _recalculate_streaks_from_history: one row per (session, user)
\* with session_date < today, poops_n > 0 and the user a chat member.
history_rows(sess, states, members, today) ==
    { [session_id |-> s.session_id, session_date |-> s.session_date, user_id |-> uid] :
        <<s, uid>> \in { <<s, uid>> \in sess \X members :
                            /\ s.session_date < today
                            /\ poops_of(states, s.session_id, uid) > 0 } }

\* .order_by(DaySession.session_date.asc())
RECURSIVE order_by_session_date(_)
order_by_session_date(R) ==
    IF R = {} THEN <<>>
    ELSE LET m == CHOOSE r \in R : \A q \in R : r.session_date <= q.session_date
         IN <<m>> \o order_by_session_date(R \ {m})

\* days_by_user[uid] after the loop over rows: a day is appended unless it
\* repeats the last day appended for that user.
RECURSIVE days_by_user_nodedupe(_, _)
days_by_user_nodedupe(rows, uid) ==
    IF rows = <<>> THEN <<>>
    ELSE LET before == days_by_user_nodedupe(SubSeq(rows, 1, Len(rows) - 1), uid)
             r == rows[Len(rows)]
         IN IF r.user_id = uid THEN Append(before, r.session_date) ELSE before

RECURSIVE days_by_user(_, _)
days_by_user(rows, uid) ==
    IF rows = <<>> THEN <<>>
    ELSE LET before == days_by_user(SubSeq(rows, 1, Len(rows) - 1), uid)
             r == rows[Len(rows)]
         IN IF /\ r.user_id = uid
               /\ (before = <<>> \/ before[Len(before)] # r.session_date)
            THEN Append(before, r.session_date)
            ELSE before

\* The while loop: idx runs down from len(days) - 2 while days[idx] is the
\* day before days[idx + 1] (positions are 1-based here).
RECURSIVE trailing_from(_, _)
trailing_from(days, idx) ==
    IF idx >= 1 /\ days[idx] = days[idx + 1] - 1
    THEN 1 + trailing_from(days, idx - 1)
    ELSE 0

trailing_run(days) == 1 + trailing_from(days, Len(days) - 1)

recalculated_streak_any_day(days, today) ==
    IF days = <<>>
    THEN [current_streak |-> 0, last_poop_date |-> NoDate]
    ELSE [current_streak |-> trailing_run(days), last_poop_date |-> days[Len(days)]]

\* The record _recalculate_streaks_from_history writes for one member.
recalculated_streak(days, today) ==
    IF days = <<>>
    THEN [current_streak |-> 0, last_poop_date |-> NoDate]
    ELSE [current_streak |-> IF days[Len(days)] = today - 1
                             THEN trailing_run(days) ELSE 0,
          last_poop_date |-> days[Len(days)]]

recalculate_streaks_accumulating(sess, states, members, streaks, today) ==
    IF members = {} THEN streaks
    ELSE LET rows == order_by_session_date(history_rows(sess, states, members, today))
         IN [uid \in (DOMAIN streaks) \cup members |->
                IF uid \in members
                THEN LET r == recalculated_streak(days_by_user(rows, uid), today)
                     IN IF uid \in DOMAIN streaks
                        THEN [r EXCEPT !.current_streak = @ + streaks[uid].current_streak]
                        ELSE r
                ELSE streaks[uid]]

\* _recalculate_streaks_from_history(db, chat_id, today): every member's row
\* is created or overwritten; rows of non-members are left alone.
recalculate_streaks_from_history(sess, states, members, streaks, today) ==
    IF members = {} THEN streaks
    ELSE LET rows == order_by_session_date(history_rows(sess, states, members, today))
         IN [uid \in (DOMAIN streaks) \cup members |->
                IF uid \in members
                THEN recalculated_streak(days_by_user(rows, uid), today)
                ELSE streaks[uid]]

\* ------------------------------------------------ coroutines at rest

EmptyFn == <<>>
NoMid == 0           \* get_session_message_id / get_command_message_id -> None
AnyMid == 1          \* the id of a Q2 or Q3 message (their ids are not told apart)

\* A transaction's pending writes (the ORM session's unit of work).
NoWrites ==
    [sess_new |-> {}, closed |-> {}, streaks |-> EmptyFn,
     smsg |-> EmptyFn, cmsg |-> EmptyFn]

IdleSch == [pc |-> "idle", lt |-> 0, ld |-> 0, notif |-> FALSE, recalc |-> FALSE, cur |-> 0,
            seen |-> {}, queue |-> <<>>, after_lock |-> "loop",
            closed_log |-> <<>>, ws |-> NoWrites]

IdleHnd == [pc |-> "idle", name |-> "none", lt |-> 0, ld |-> 0, user |-> 0,
            enable |-> FALSE, blocked |-> FALSE, sess_new |-> {}, sid |-> 0,
            poops |-> NoRow, member |-> FALSE, smsg |-> EmptyFn]

FreshStreak == [current_streak |-> 0, last_poop_date |-> NoDate]

NoHarness == [op |-> "init", today |-> 0, recalced |-> FALSE, sid |-> 0, after_recalc |-> NoDate]

\* The variables a specification does not use stay at these values.
NoSweep == [pc |-> "idle"]
NoOp == [pc |-> "idle"]
NoCallback == [pc |-> "idle", data |-> "none", user |-> 0, ok |-> FALSE,
               states |-> EmptyFn, events |-> {}]
NoWin == [d |-> 0]
NoStamp == -1        \* db.get(RateLimit, key) -> None

SweepAtRest == chats = EmptyFn /\ sweep = NoSweep /\ log = EmptyFn
MsgAtRest == tg = EmptyFn /\ op = NoOp
WindowAtRest == win = NoWin
RateAtRest == rate_limits = NoStamp /\ rl = EmptyFn /\ utc = 0
CountAtRest == poop_events = {} /\ cb = NoCallback

AuxAtRest == SweepAtRest /\ MsgAtRest /\ WindowAtRest /\ RateAtRest /\ CountAtRest

\* One enabled chat with empty tables and no coroutine in flight.
CoreAtRest ==
    /\ epoch = "plain"
    /\ is_enabled = TRUE
    /\ notifications_enabled = TRUE
    /\ sessions = {}
    /\ session_messages = EmptyFn
    /\ command_messages = EmptyFn
    /\ user_states = EmptyFn
    /\ chat_members = {}
    /\ user_streaks = EmptyFn
    /\ streak_recalc_date = NoDate
    /\ sent = EmptyFn
    /\ faults = 0
    /\ sch = IdleSch
    /\ hnd = IdleHnd
    /\ h = NoHarness

\* ------------------------------------------------------- streak harness
\* A synthetic activity history is drawn as the initial state: which dates
\* have a session, each user's poops_n in it (or no row), and optionally a
\* second session row on one date, which exercises the dedupe branch of
\* _recalculate_streaks_from_history.  SClose applies the database part of
\* _close_session to the earliest active session (the order of
\* _process_chat's catch-up loop); SRecalc applies
\* _recalculate_streaks_from_history.

HDays == 1..HistDays
DupId(d) == HistDays + d

HistorySessions(present, dup) ==
    { [session_id |-> d, session_date |-> d, status |-> "active"] : d \in present }
    \cup (IF dup = 0 THEN {}
          ELSE {[session_id |-> DupId(dup), session_date |-> dup, status |-> "active"]})

HistoryStates(sids, p) ==
    LET keys == { k \in sids \X Users : p[k[1]][k[2]] # NoRow }
    IN [k \in keys |-> NewState(p[k[1]][k[2]])]

InitStreak ==
    /\ now = [d |-> 1, t |-> 0]
    /\ epoch = "dec"
    /\ is_enabled = TRUE
    /\ notifications_enabled = TRUE
    /\ \E present \in SUBSET HDays : \E dup \in {0} \cup present :
         LET ss == HistorySessions(present, dup)
             sids == { s.session_id : s \in ss }
         IN /\ sessions = ss
            /\ \E p \in [sids -> [Users -> {NoRow, 0, 1}]] :
                 /\ (dup # 0 => \A u \in Users : p[DupId(dup)][u] = 1)
                 /\ user_states = HistoryStates(sids, p)
    /\ session_messages = EmptyFn
    /\ command_messages = EmptyFn
    /\ chat_members = Users
    /\ user_streaks = [u \in Users |-> FreshStreak]
    /\ streak_recalc_date = NoDate
    /\ sent = EmptyFn
    /\ faults = 0
    /\ sch = IdleSch
    /\ hnd = IdleHnd
    /\ h = NoHarness
    /\ AuxAtRest

ActiveSessions(ss) == { s \in ss : s.status = "active" }

\* The first row of select(...status == "active").order_by(session_date.asc())
Earliest(S) == CHOOSE s \in S : \A q \in S : s.session_date <= q.session_date

\* _close_session's writes to the Session row: status and end_at.
mark_closed(ss, sid) ==
    { IF s.session_id = sid THEN [s EXCEPT !.status = "closed"] ELSE s : s \in ss }

SClose ==
    /\ ActiveSessions(sessions) # {}
    /\ LET s == Earliest(ActiveSessions(sessions))
       IN /\ sessions' = mark_closed(sessions, s.session_id)
          /\ user_streaks' = close_session_streaks(user_streaks, user_states,
                                                   s.session_id, s.session_date)
          /\ h' = [h EXCEPT !.op = "close", !.today = s.session_date, !.sid = s.session_id,
                             !.after_recalc = IF h.op = "recalc" THEN h.today ELSE NoDate]
    /\ UNCHANGED auxVars
    /\ UNCHANGED <<now, epoch, is_enabled, notifications_enabled, session_messages, command_messages,
                   user_states, chat_members, streak_recalc_date, sent, faults, sch, hnd>>

SRecalc ==
    /\ \E today \in 1..(HistDays + 1) :
         /\ user_streaks' = recalculate_streaks_from_history(
                                sessions, user_states, chat_members, user_streaks, today)
         /\ h' = [h EXCEPT !.op = "recalc", !.today = today, !.recalced = TRUE,
                            !.after_recalc = NoDate]
    /\ UNCHANGED auxVars
    /\ UNCHANGED <<now, epoch, is_enabled, notifications_enabled, sessions, session_messages, command_messages,
                   user_states, chat_members, streak_recalc_date, sent, faults, sch, hnd>>

NextStreak == SClose \/ SRecalc

SpecStreak == InitStreak /\ [][NextStreak]_vars

\* ------------------------------------------------ streak claims (SpecStreak)

\* The dates before `today` on which a user has poops_n > 0 in some session.
ActiveDates(uid, today) ==
    { s.session_date : s \in { q \in sessions :
          q.session_date < today /\ poops_of(user_states, q.session_id, uid) > 0 } }

Latest(A) == CHOOSE d \in A : \A e \in A : e <= d

\* Length of the maximal run of consecutive dates of A that ends at `last`.
RunEndingAt(A, last) ==
    CHOOSE k \in 1..Cardinality(A) :
        /\ \A i \in 0..(k - 1) : (last - i) \in A
        /\ (last - k) \notin A

NoDuplicateDates ==
    \A s \in sessions : \A q \in sessions :
        s.session_date = q.session_date => s = q

\* Only day-closes have been applied, in date order, the last one for date T.
ClosedThrough(T) == h.op = "close" /\ ~h.recalced /\ h.today = T

\* C6: streak equivalence.  After the day-closes of a history have been applied
\* in date order up to date T, every member's (current_streak, last_poop_date)
\* written by the incremental update of _close_session equals what
\* _recalculate_streaks_from_history computes for today = T + 1.
Thm_C6_StreakEquivalence ==
    \A T \in HDays :
        (ClosedThrough(T) /\ NoDuplicateDates) =>
            \A u \in chat_members :
                user_streaks[u] =
                    recalculate_streaks_from_history(
                        sessions, user_states, chat_members, user_streaks, T + 1)[u]

Wit_C6_StreakEquivalence ==
    /\ ClosedThrough(HistDays)
    /\ NoDuplicateDates
    /\ \E u \in chat_members : user_streaks[u].current_streak >= 2

\* A user active on D, D+1 and D+3, not on D+2 and on no date before D.
GapHistory(u, D) ==
    /\ NoDuplicateDates
    /\ ActiveDates(u, HistDays + 1) \cap (1..(D + 3)) = {D, D + 1, D + 3}

\* C7: streak gap handling.  For a user active on D, D+1 and D+3 but not on
\* D+2, the streak is 2 once D+1 is processed and 1 once D+3 is processed, on
\* the incremental close path and on the recompute path, and it is never 3.
Thm_C7_GapHandling ==
    \A u \in Users : \A D \in 1..(HistDays - 3) :
        GapHistory(u, D) =>
            /\ ClosedThrough(D + 1) => user_streaks[u].current_streak = 2
            /\ ClosedThrough(D + 3) => user_streaks[u].current_streak = 1
            /\ (h.op = "recalc" /\ h.today = D + 2) => user_streaks[u].current_streak = 2
            /\ (h.op = "recalc" /\ h.today = D + 4) => user_streaks[u].current_streak = 1
            /\ user_streaks[u].current_streak < 3

Wit_C7_GapHandling ==
    \E u \in Users :
        /\ GapHistory(u, 1)
        /\ ClosedThrough(4)
        /\ \A s \in sessions : s.session_date # 3

\* C8: the incremental update.  Closing the session of date T gives every user
\* with a streak row: poops_n > 0 -> current_streak is old + 1 if
\* last_poop_date was T - 1, else 1, and last_poop_date is T; poops_n = 0 or
\* no state row -> current_streak 0 and last_poop_date unchanged.
Thm_C8_IncrementalUpdate ==
    [][\A s \in sessions :
         (s.status = "active" /\ s \notin sessions') =>
            /\ DOMAIN user_streaks' = DOMAIN user_streaks
            /\ \A u \in DOMAIN user_streaks :
                 LET T == s.session_date
                     n == IF <<s.session_id, u>> \in DOMAIN user_states
                          THEN user_states[<<s.session_id, u>>].poops_n ELSE 0
                     old == user_streaks[u]
                     new == user_streaks'[u]
                 IN /\ n > 0 =>
                         /\ new.last_poop_date = T
                         /\ new.current_streak =
                              IF old.last_poop_date = T - 1
                              THEN old.current_streak + 1 ELSE 1
                    /\ n = 0 =>
                         /\ new.current_streak = 0
                         /\ new.last_poop_date = old.last_poop_date]_vars

\* A close has reset the streak of a user who was active the day before and has
\* no state row in the closed session.
Wit_C8_IncrementalUpdate ==
    /\ h.op = "close"
    /\ \E u \in Users :
         /\ <<h.sid, u>> \notin DOMAIN user_states
         /\ user_streaks[u].current_streak = 0
         /\ user_streaks[u].last_poop_date = h.today - 1

\* C9: recompute from history.  _recalculate_streaks_from_history(chat, today)
\* gives every member last_poop_date = the latest date before today with
\* poops_n > 0 (none if there is no such date) and current_streak = the length
\* of the run of consecutive active dates ending there if that date is
\* today - 1, else 0; two session rows of one date count once.
Thm_C9_Recompute ==
    h.op = "recalc" =>
        \A u \in chat_members :
            LET A == ActiveDates(u, h.today)
            IN IF A = {}
               THEN user_streaks[u] = [current_streak |-> 0, last_poop_date |-> NoDate]
               ELSE /\ user_streaks[u].last_poop_date = Latest(A)
                    /\ user_streaks[u].current_streak =
                         IF Latest(A) = h.today - 1
                         THEN RunEndingAt(A, Latest(A)) ELSE 0

\* A recompute over a history with a duplicated date inside a run of length 2.
Wit_C9_Recompute ==
    /\ h.op = "recalc"
    /\ ~NoDuplicateDates
    /\ \E u \in chat_members : user_streaks[u].current_streak = 2


\* A second run over the same history and date writes what the first wrote.
RecalcAgain ==
    recalculate_streaks_from_history(sessions, user_states, chat_members,
                                     user_streaks, h.today) = user_streaks

\* C30: recompute-from-history is idempotent: run again for the same date
\* over the same history, as after a lost marker, it leaves the streak rows
\* the first run produced.
Thm_C30_RecalcIdempotent ==
    /\ [](h.op = "recalc" => RecalcAgain)
    /\ [][(h.op = "recalc" /\ h'.op = "recalc" /\ h'.today = h.today)
              => user_streaks' = user_streaks]_vars

\* The rows after a run that left some member a streak of two days or more.
Wit_C30_RecalcIdempotent ==
    /\ h.op = "recalc"
    /\ \E u \in chat_members : user_streaks[u].current_streak >= 2
    /\ RecalcAgain

\* ---------------------------------------------------------------- calendar

\* Four stretches of the calendar the dates 1, 2, ... stand for: one starts
\* on Monday 3 March 2025 and holds no date the scheduler treats specially,
\* one starts on Saturday 30 December 2023, one on Saturday 8 February 2025,
\* one on Sunday 9 February 2025.
Calendar ==
    [plain |-> << [month |-> 3, day |-> 3, weekday |-> 0],
                  [month |-> 3, day |-> 4, weekday |-> 1],
                  [month |-> 3, day |-> 5, weekday |-> 2],
                  [month |-> 3, day |-> 6, weekday |-> 3],
                  [month |-> 3, day |-> 7, weekday |-> 4],
                  [month |-> 3, day |-> 8, weekday |-> 5] >>,
     dec |-> << [month |-> 12, day |-> 30, weekday |-> 5],
                [month |-> 12, day |-> 31, weekday |-> 6],
                [month |-> 1, day |-> 1, weekday |-> 0],
                [month |-> 1, day |-> 2, weekday |-> 1],
                [month |-> 1, day |-> 3, weekday |-> 2],
                [month |-> 1, day |-> 4, weekday |-> 3] >>,
     feb |-> << [month |-> 2, day |-> 8, weekday |-> 5],
                [month |-> 2, day |-> 9, weekday |-> 6],
                [month |-> 2, day |-> 10, weekday |-> 0],
                [month |-> 2, day |-> 11, weekday |-> 1],
                [month |-> 2, day |-> 12, weekday |-> 2],
                [month |-> 2, day |-> 13, weekday |-> 3] >>,
     feb9 |-> << [month |-> 2, day |-> 9, weekday |-> 6],
                 [month |-> 2, day |-> 10, weekday |-> 0],
                 [month |-> 2, day |-> 11, weekday |-> 1] >>]

month_of(d) == Calendar[epoch][d].month
day_of(d) == Calendar[epoch][d].day
weekday_of(d) == Calendar[epoch][d].weekday

is_last_day_of_month(d) == month_of(d + 1) # month_of(d)

\* ------------------------------------------------------------------- clock

hour(t) == t \div 60
minute(t) == t % 60

PostTime == 10 * 60              \* Chat.post_time = time(10, 0)
CloseCutoff == 23 * 60 + 55      \* close_cutoff = time(23, 55)
PoopsCap == 10                   \* apply_plus refuses at poops_n >= 10

\* The minutes of the day at which the clock is observed: around midnight
\* on the plain dates, at the notification times on the others, and on
\* 9 February also an hour before the post time and at 22:00.
Slots ==
    CASE epoch = "plain" -> << 0, 6, PostTime, CloseCutoff >>
      [] epoch = "feb9" -> << 9 * 60, PostTime, 22 * 60, 23 * 60, 23 * 60 + 30, CloseCutoff >>
      [] OTHER -> << PostTime, 23 * 60, 23 * 60 + 30, CloseCutoff >>

SlotIndex(t) == CHOOSE i \in 1..Len(Slots) : Slots[i] = t

\* datetime.time(h, m, s) as the second of the day.
time(hh, mm, ss) == (hh * 60 + mm) * 60 + ss

DaySeconds == 24 * 60 * 60

WindowStart == time(0, 5, 0)     \* start = time(0, 5, 0, tzinfo=t.tzinfo)
WindowEnd == time(23, 55, 0)     \* end = time(23, 55, 0, tzinfo=t.tzinfo)

\* now_in_tz: the wall clock of a zone whose offset from UTC is off seconds,
\* at the instant utc (seconds since the start of UTC date 0).
now_in_tz(utc_secs, off) ==
    [date |-> (utc_secs + off) \div DaySeconds, secs |-> (utc_secs + off) % DaySeconds]

session_window_late_end(local) ==
    IF local.secs < WindowStart
    THEN [session_date |-> local.date, is_blocked_window |-> TRUE, is_active_window |-> FALSE]
    ELSE IF local.secs > WindowEnd
         THEN [session_date |-> local.date, is_blocked_window |-> TRUE,
               is_active_window |-> FALSE]
         ELSE [session_date |-> local.date, is_blocked_window |-> FALSE,
               is_active_window |-> TRUE]

\* get_session_window after its clock read: local is now_in_tz's result.
session_window(local) ==
    IF local.secs < WindowStart
    THEN [session_date |-> local.date, is_blocked_window |-> TRUE, is_active_window |-> FALSE]
    ELSE IF local.secs >= WindowEnd
         THEN [session_date |-> local.date, is_blocked_window |-> TRUE,
               is_active_window |-> FALSE]
         ELSE [session_date |-> local.date, is_blocked_window |-> FALSE,
               is_active_window |-> TRUE]

\* get_session_window read at the observed minute clock of the chat's date.
get_session_window(clock) == session_window([date |-> clock.d, secs |-> time(0, clock.t, 0)])

\* ------------------------------------------------- a transaction's reads

\* f overridden by g on g's domain.
Override(g, f) ==
    [x \in DOMAIN g \cup DOMAIN f |-> IF x \in DOMAIN g THEN g[x] ELSE f[x]]

Put(f, k, v) == Override([x \in {k} |-> v], f)

apply_closed_unmarked(ss, sids) == ss

apply_closed(ss, sids) ==
    { IF s.session_id \in sids THEN [s EXCEPT !.status = "closed"] ELSE s : s \in ss }

\* What a transaction with write set w reads: the committed rows under its
\* own pending writes.
view_sessions(w) == apply_closed(sessions \cup w.sess_new, w.closed)
view_streaks(w) == Override(w.streaks, user_streaks)
view_session_messages(w) == Override(w.smsg, session_messages)
view_command_messages(w) == Override(w.cmsg, command_messages)

get_session_message_id(w, sid, kind) ==
    IF <<sid, kind>> \in DOMAIN view_session_messages(w)
    THEN view_session_messages(w)[<<sid, kind>>]
    ELSE NoMid

get_command_message_id(w, command, d) ==
    IF <<command, d>> \in DOMAIN view_command_messages(w)
    THEN view_command_messages(w)[<<command, d>>]
    ELSE NoMid

session_by_id(ss, sid) == CHOOSE s \in ss : s.session_id = sid

sent_count(d, kind) == IF <<d, kind>> \in DOMAIN sent THEN sent[<<d, kind>>] ELSE 0

\* The (chat_id, session_date) key of Session is unique: a row with the key
\* of row cannot be inserted into ss.
unique_session_key_off(ss, row) == TRUE

unique_session_key(ss, row) ==
    \A s \in ss : s.session_date # row.session_date

MaxId(S) == IF S = {} THEN 0 ELSE CHOOSE n \in S : \A m \in S : m <= n

\* The next value of the session_id sequence.
next_session_id ==
    1 + MaxId({s.session_id : s \in sessions \cup sch.ws.sess_new \cup hnd.sess_new})

\* get_or_create_session: the rows the call inserts into the transaction
\* that reads ss (none when the select finds the date).
get_or_create_session(ss, d) ==
    IF \E s \in ss : s.session_date = d
    THEN {}
    ELSE {[session_id |-> next_session_id, session_date |-> d, status |-> "active"]}

session_for_date(ss, d) == CHOOSE s \in ss : s.session_date = d

\* ------------------------------------- the scheduler's per-chat pipeline
\* _process_chat runs in one transaction and gives up control only at its
\* transport calls.  Each operator below takes the coroutine's locals st
\* when control reaches one step of the pipeline and returns them at the
\* next transport call (pc names the call) or at the end of the with-block
\* (pc = "commit").

AwaitPcs == {"refresh", "lock", "recap_announce", "Q1", "Q2", "Q3", "late_reminder",
             "weekly_stats", "monthly_stats", "yearly_stats", "holiday_notice"}

\* The kinds of message whose sends are counted in sent.
CountedKinds == {"recap_announce", "Q1", "late_reminder", "weekly_stats",
                 "monthly_stats", "yearly_stats", "holiday_notice"}

AtCommit(st) == [st EXCEPT !.pc = "commit"]
AwaitAt(st, pc) == [st EXCEPT !.pc = pc]

has_holiday_text(d) ==
    \/ month_of(d) = 2 /\ day_of(d) = 9
    \/ month_of(d) = 11 /\ day_of(d) = 19

send_holiday_notice_unasked(st) ==
    IF /\ has_holiday_text(st.ld)
       /\ get_session_message_id(st.ws, st.cur, "Q1") # NoMid
       /\ get_session_message_id(st.ws, st.cur, "Q2") # NoMid
       /\ get_session_message_id(st.ws, st.cur, "Q3") # NoMid
       /\ get_command_message_id(st.ws, "holiday_notice", st.ld) = NoMid
    THEN AwaitAt(st, "holiday_notice")
    ELSE AtCommit(st)

send_holiday_notice_if_needed(st) ==
    IF /\ st.notif
       /\ has_holiday_text(st.ld)
       /\ get_session_message_id(st.ws, st.cur, "Q1") # NoMid
       /\ get_session_message_id(st.ws, st.cur, "Q2") # NoMid
       /\ get_session_message_id(st.ws, st.cur, "Q3") # NoMid
       /\ get_command_message_id(st.ws, "holiday_notice", st.ld) = NoMid
    THEN AwaitAt(st, "holiday_notice")
    ELSE AtCommit(st)

\* if notifications_enabled and local_time.hour == 23 and local_time.minute == 0
periodic_stats_time(st) == st.notif /\ hour(st.lt) = 23 /\ minute(st.lt) = 0

already_sent(st, kind) == get_command_message_id(st.ws, kind, st.ld) # NoMid

send_yearly_stats(st) ==
    IF /\ periodic_stats_time(st)
       /\ month_of(st.ld) = 12 /\ day_of(st.ld) = 31
       /\ ~already_sent(st, "yearly_stats")
    THEN AwaitAt(st, "yearly_stats")
    ELSE send_holiday_notice_if_needed(st)

send_monthly_stats(st) ==
    IF /\ periodic_stats_time(st)
       /\ is_last_day_of_month(st.ld)
       /\ ~already_sent(st, "monthly_stats")
    THEN AwaitAt(st, "monthly_stats")
    ELSE send_yearly_stats(st)

send_periodic_stats(st) ==
    IF /\ periodic_stats_time(st)
       /\ weekday_of(st.ld) = 6
       /\ ~already_sent(st, "weekly_stats")
    THEN AwaitAt(st, "weekly_stats")
    ELSE send_monthly_stats(st)

\* build_late_reminder_text returns a text: the chat has members and one of
\* them has no poop in the session.
build_late_reminder_text(sid) ==
    /\ chat_members # {}
    /\ \E uid \in chat_members : poops_of(user_states, sid, uid) <= 0

send_late_reminder(st) ==
    IF /\ st.notif /\ hour(st.lt) = 23 /\ minute(st.lt) = 30
       /\ get_session_message_id(st.ws, st.cur, "Q1") # NoMid
       /\ get_command_message_id(st.ws, "late_reminder", st.ld) = NoMid
       /\ build_late_reminder_text(st.cur)
    THEN AwaitAt(st, "late_reminder")
    ELSE send_periodic_stats(st)

\* The Q1 auto-post of _process_chat, up to _post_q1's first transport call.
post_q1(st) ==
    IF /\ st.notif
       /\ hour(st.lt) = hour(PostTime) /\ minute(st.lt) = minute(PostTime)
       /\ get_session_message_id(st.ws, st.cur, "Q1") = NoMid
    THEN IF /\ month_of(st.ld) = 12 /\ day_of(st.ld) = 30
            /\ get_command_message_id(st.ws, "recap_announce", st.ld) = NoMid
         THEN AwaitAt(st, "recap_announce")
         ELSE AwaitAt(st, "Q1")
    ELSE send_late_reminder(st)

\* _close_session's database writes: the status and every streak row.
close_session(st, sid) ==
    LET s == session_by_id(view_sessions(st.ws), sid)
    IN IF s.status = "closed"
       THEN st
       ELSE [st EXCEPT !.ws.closed = @ \cup {sid},
                       !.ws.streaks = close_session_streaks(view_streaks(st.ws), user_states,
                                                            sid, s.session_date),
                       !.closed_log = Append(@, s.session_date)]

\* One of _lock_q1, _lock_simple, _lock_reminder_22, _lock_late_reminder
\* reaches its transport call.
has_lock_edits(w, s) ==
    \/ get_session_message_id(w, s.session_id, "Q1") # NoMid
    \/ get_session_message_id(w, s.session_id, "Q2") # NoMid
    \/ get_session_message_id(w, s.session_id, "Q3") # NoMid
    \/ get_command_message_id(w, "reminder22", s.session_date) # NoMid
    \/ get_command_message_id(w, "late_reminder", s.session_date) # NoMid

\* _process_chat from get_or_create_session on.
process_session(st) ==
    LET ins == get_or_create_session(view_sessions(st.ws), st.ld)
        st1 == [st EXCEPT !.ws.sess_new = @ \cup ins]
        sess == session_for_date(view_sessions(st1.ws), st.ld)
        st2 == [st1 EXCEPT !.cur = sess.session_id]
    IN IF st.lt >= CloseCutoff
       THEN IF sess.status # "closed"
            THEN IF has_lock_edits(st2.ws, sess)
                 THEN [close_session(st2, sess.session_id) EXCEPT !.pc = "lock",
                                                                  !.after_lock = "return"]
                 ELSE AtCommit(close_session(st2, sess.session_id))
            ELSE AtCommit(st2)
       ELSE IF sess.status = "closed"
            THEN AtCommit(st2)
            ELSE IF get_session_window([d |-> st.ld, t |-> st.lt]).is_blocked_window
                 THEN AtCommit(st2)
                 ELSE post_q1(st2)

is_past_day_buggy(s, st) == s.session_date <= st.ld

is_past_day(s, st) == s.session_date < st.ld

is_today_after_cutoff(s, st) == s.session_date = st.ld /\ st.lt >= CloseCutoff

close_loop_post_first(st) == process_session([st EXCEPT !.queue = <<>>])

\* for active_sess in active_sessions: ... await _close_session(...)
RECURSIVE close_loop(_)
close_loop(st) ==
    IF st.queue = <<>>
    THEN process_session(st)
    ELSE LET s == Head(st.queue)
             rest == [st EXCEPT !.queue = Tail(@)]
         IN IF is_past_day(s, st) \/ is_today_after_cutoff(s, st)
            THEN LET cur == session_by_id(view_sessions(st.ws), s.session_id)
                 IN IF cur.status # "closed" /\ has_lock_edits(st.ws, cur)
                    THEN [close_session(rest, s.session_id) EXCEPT !.pc = "lock",
                                                                   !.after_lock = "loop"]
                    ELSE close_loop(close_session(rest, s.session_id))
            ELSE close_loop(rest)

\* active_sessions = select ... where status == "active" order by session_date asc
select_active_sessions(st) ==
    LET act == ActiveSessions(view_sessions(st.ws))
    IN close_loop([st EXCEPT !.queue = order_by_session_date(act),
                             !.seen = {s.session_id : s \in act}])

should_recalc_now_unmarked(clock, marker) ==
    /\ hour(clock.t) = 0
    /\ 6 <= minute(clock.t) /\ minute(clock.t) <= 10

should_recalc_now(clock, marker) ==
    /\ hour(clock.t) = 0
    /\ 6 <= minute(clock.t) /\ minute(clock.t) <= 10
    /\ marker # clock.d

\* _refresh_current_q1_view reaches its transport call.
refresh_current_q1_view(w, d) ==
    LET ss == view_sessions(w)
    IN /\ \E s \in ss : s.session_date = d
       /\ session_for_date(ss, d).status # "closed"
       /\ get_session_message_id(w, session_for_date(ss, d).session_id, "Q1") # NoMid

\* _process_chat from its first line, entered at clock with the marker.
process_chat(clock, marker) ==
    LET st == [IdleSch EXCEPT !.lt = clock.t, !.ld = clock.d,
                              !.notif = notifications_enabled]
    IN IF should_recalc_now(clock, marker)
       THEN LET st1 == [st EXCEPT !.recalc = TRUE, !.ws.streaks =
                            recalculate_streaks_from_history(sessions, user_states, chat_members,
                                                             user_streaks, clock.d)]
            IN IF refresh_current_q1_view(st1.ws, clock.d)
               THEN AwaitAt(st1, "refresh")
               ELSE select_active_sessions(st1)
       ELSE select_active_sessions(st)

\* The pipeline after the transport call st.pc has returned; mid is the id of
\* the message a send returned.
resume(st, mid) ==
    CASE st.pc = "refresh" -> select_active_sessions(st)
      [] st.pc = "lock" -> IF st.after_lock = "loop" THEN close_loop(st) ELSE AtCommit(st)
      [] st.pc = "recap_announce" ->
            AwaitAt([st EXCEPT !.ws.cmsg = Put(@, <<"recap_announce", st.ld>>, mid)], "Q1")
      [] st.pc = "Q1" ->
            AwaitAt([st EXCEPT !.ws.smsg = Put(@, <<st.cur, "Q1">>, mid)], "Q2")
      [] st.pc = "Q2" ->
            AwaitAt([st EXCEPT !.ws.smsg = Put(@, <<st.cur, "Q2">>, AnyMid)], "Q3")
      [] st.pc = "Q3" ->
            send_late_reminder([st EXCEPT !.ws.smsg = Put(@, <<st.cur, "Q3">>, AnyMid)])
      [] st.pc = "late_reminder" ->
            send_periodic_stats([st EXCEPT !.ws.cmsg = Put(@, <<"late_reminder", st.ld>>, mid)])
      [] st.pc = "weekly_stats" ->
            send_monthly_stats([st EXCEPT !.ws.cmsg = Put(@, <<"weekly_stats", st.ld>>, mid)])
      [] st.pc = "monthly_stats" ->
            send_yearly_stats([st EXCEPT !.ws.cmsg = Put(@, <<"monthly_stats", st.ld>>, mid)])
      [] st.pc = "yearly_stats" ->
            send_holiday_notice_if_needed(
                [st EXCEPT !.ws.cmsg = Put(@, <<"yearly_stats", st.ld>>, mid)])
      [] st.pc = "holiday_notice" ->
            AtCommit([st EXCEPT !.ws.cmsg = Put(@, <<"holiday_notice", st.ld>>, mid)])

\* session.commit(): the Session rows after the write set w is applied.
commit_sessions_stale(ss, w) ==
    { IF s.session_id \in w.closed THEN [s EXCEPT !.status = "closed"]
      ELSE [s EXCEPT !.status = "active"] : s \in ss \cup w.sess_new }

commit_sessions(ss, w) == apply_closed(ss \cup w.sess_new, w.closed)

\* -------------------------------------------------------------- actions

InitIn(epochs) ==
    /\ epoch \in epochs
    /\ now = [d |-> 1, t |-> Slots[1]]
    /\ is_enabled = TRUE
    /\ notifications_enabled = TRUE
    /\ sessions = {}
    /\ session_messages = EmptyFn
    /\ command_messages = EmptyFn
    /\ user_states = EmptyFn
    /\ chat_members = {}
    /\ user_streaks = EmptyFn
    /\ streak_recalc_date = NoDate
    /\ sent = EmptyFn
    /\ faults = 0
    /\ sch = IdleSch
    /\ hnd = IdleHnd
    /\ h = NoHarness
    /\ AuxAtRest

\* The chat after its first /start, on dates without notifications of the
\* calendar.
Init == InitIn({"plain"})

\* The same chat around the year's end and around 9 February.
InitNotify == InitIn({"dec", "feb"})

\* The last date of a run: the notification dates are followed one day less.
LastDay == IF epoch = "plain" THEN MaxDay ELSE MaxDay - 1

\* Time passes to the next observed minute, up to Slots[LastSlot] of the
\* last day.  A coroutine in flight sees the clock move on at most once.
Advance ==
    /\ sch.pc # "commit"
    /\ now.d < LastDay \/ SlotIndex(now.t) < LastSlot
    /\ sch.pc = "idle" \/ (sch.ld = now.d /\ sch.lt = now.t)
    /\ hnd.pc = "idle" \/ (hnd.ld = now.d /\ hnd.lt = now.t)
    /\ LET i == SlotIndex(now.t)
       IN IF i < Len(Slots)
          THEN now' = [now EXCEPT !.t = Slots[i + 1]]
          ELSE now' = [d |-> now.d + 1, t |-> Slots[1]]
    /\ UNCHANGED auxVars
    /\ UNCHANGED <<epoch, is_enabled, notifications_enabled, sessions, session_messages,
                   command_messages, user_states, chat_members, user_streaks,
                   streak_recalc_date, sent, sch, hnd, h, faults>>

\* _tick reaches the chat: _process_chat runs up to its first transport call.
TickStart ==
    /\ sch.pc = "idle"
    /\ is_enabled
    /\ sch' = process_chat(now, streak_recalc_date)
    /\ streak_recalc_date' = IF should_recalc_now(now, streak_recalc_date)
                             THEN now.d ELSE streak_recalc_date
    /\ UNCHANGED auxVars
    /\ UNCHANGED <<now, epoch, is_enabled, notifications_enabled, sessions, session_messages,
                   command_messages, user_states, chat_members, user_streaks, sent, hnd, h, faults>>

\* The transport call returns normally (for an edit: also the BadRequests
\* that _safe_edit_message_text swallows) and the pipeline runs on.
TransportOk ==
    /\ sch.pc \in AwaitPcs
    /\ LET n == sent_count(sch.ld, sch.pc) + 1
       IN IF sch.pc \in CountedKinds
          THEN /\ n <= MaxSends
               /\ sent' = Put(sent, <<sch.ld, sch.pc>>, n)
               /\ sch' = resume(sch, n)
          ELSE /\ sent' = sent
               /\ sch' = resume(sch, AnyMid)
    /\ UNCHANGED auxVars
    /\ UNCHANGED <<now, epoch, is_enabled, notifications_enabled, sessions, session_messages,
                   command_messages, user_states, chat_members, user_streaks,
                   streak_recalc_date, hnd, h, faults>>

\* The transport call raises TelegramForbiddenError: the transaction is
\* rolled back and _tick disables the chat.
TransportForbidden ==
    /\ sch.pc \in AwaitPcs
    /\ faults < MaxFaults
    /\ faults' = faults + 1
    /\ sch' = IdleSch
    /\ is_enabled' = FALSE
    /\ UNCHANGED auxVars
    /\ UNCHANGED <<now, epoch, notifications_enabled, sessions, session_messages,
                   command_messages, user_states, chat_members, user_streaks,
                   streak_recalc_date, sent, hnd, h>>

TransportError_keeps_status ==
    /\ sch.pc \in AwaitPcs
    /\ faults < MaxFaults
    /\ faults' = faults + 1
    /\ sch' = IdleSch
    /\ sessions' = commit_sessions(sessions, sch.ws)
    /\ UNCHANGED auxVars
    /\ UNCHANGED <<now, epoch, is_enabled, notifications_enabled, session_messages,
                   command_messages, user_states, chat_members, user_streaks,
                   streak_recalc_date, sent, hnd, h>>

\* The transport call raises anything else (a BadRequest that is not
\* swallowed, a network error, RetryAfter past the retries): the transaction
\* is rolled back and _tick logs the exception.
TransportError ==
    /\ sch.pc \in AwaitPcs
    /\ faults < MaxFaults
    /\ faults' = faults + 1
    /\ sch' = IdleSch
    /\ UNCHANGED auxVars
    /\ UNCHANGED <<now, epoch, is_enabled, notifications_enabled, sessions, session_messages,
                   command_messages, user_states, chat_members, user_streaks,
                   streak_recalc_date, sent, hnd, h>>

inserts_fit_always(committed, added) == TRUE

\* sm = db.get(SessionMessage, {"session_id": ..., "kind": ...}); if sm is
\* None: db.add(sm).  The rows a transaction adds are inserted under the
\* primary key (session_id, kind).
inserts_fit(committed, added) == DOMAIN added \cap DOMAIN committed = {}

\* _process_chat leaves its with-block: session.commit().  An insert whose
\* key a committed row holds fails the commit and everything is rolled back.
SchCommit ==
    /\ sch.pc = "commit"
    /\ IF /\ \A r \in sch.ws.sess_new : unique_session_key(sessions, r)
          /\ inserts_fit(session_messages, sch.ws.smsg)
       THEN /\ sessions' = commit_sessions(sessions, sch.ws)
            /\ user_streaks' = view_streaks(sch.ws)
            /\ session_messages' = view_session_messages(sch.ws)
            /\ command_messages' = view_command_messages(sch.ws)
       ELSE UNCHANGED <<sessions, user_streaks, session_messages, command_messages>>
    /\ sch' = IdleSch
    /\ UNCHANGED auxVars
    /\ UNCHANGED <<now, epoch, is_enabled, notifications_enabled, user_states, chat_members,
                   streak_recalc_date, sent, hnd, h, faults>>

\* q1_callbacks returns before it touches a session (blocked window, rate
\* limit): only upsert_chat's write is committed.
HEarlyReturn ==
    /\ hnd.pc = "idle"
    /\ sch.pc # "commit"
    /\ ~is_enabled
    /\ is_enabled' = TRUE
    /\ UNCHANGED auxVars
    /\ UNCHANGED <<now, epoch, notifications_enabled, sessions, session_messages,
                   command_messages, user_states, chat_members, user_streaks,
                   streak_recalc_date, sent, sch, hnd, h, faults>>

\* The handlers that open with the window check.
WindowHandlers == {"start_cmd", "q1_callbacks", "q2_callbacks", "q3_callbacks"}

window_rejects_never(window) == FALSE

\* if window.is_blocked_window: await cb.answer(...); return
window_rejects(window) == window.is_blocked_window

\* start_cmd, q1_callbacks, q2_callbacks or q3_callbacks called while the
\* window is blocked, up to the await of its answer: upsert_chat has run and
\* nothing else.
HBlocked ==
    /\ hnd.pc = "idle"
    /\ sch.pc # "commit"
    /\ window_rejects(get_session_window(now))
    /\ \E name \in WindowHandlers :
          hnd' = [IdleHnd EXCEPT !.pc = "answer", !.name = name, !.blocked = TRUE,
                                 !.ld = now.d, !.lt = now.t, !.enable = ~is_enabled]
    /\ UNCHANGED auxVars
    /\ UNCHANGED <<now, epoch, is_enabled, notifications_enabled, sessions, session_messages,
                   command_messages, user_states, chat_members, user_streaks,
                   streak_recalc_date, sent, sch, h, faults>>

apply_minus(sid, uid) ==
    IF <<sid, uid>> \notin DOMAIN user_states \/ poops_of(user_states, sid, uid) <= 0
    THEN NoRow
    ELSE poops_of(user_states, sid, uid) - 1

apply_plus_uncapped(sid, uid) == poops_of(user_states, sid, uid) + 1

apply_plus(sid, uid) ==
    IF poops_of(user_states, sid, uid) >= PoopsCap
    THEN poops_of(user_states, sid, uid)
    ELSE poops_of(user_states, sid, uid) + 1

\* q1_callbacks for q1:plus / q1:minus pressed by user u under the n-th Q1
\* message of date d, up to its await of cb.answer.  The window is open and
\* check_rate_limit lets the press through; its timestamps are not kept here.
HStart ==
    /\ hnd.pc = "idle"
    /\ sch.pc # "commit"
    /\ ~window_rejects(get_session_window(now))
    /\ \E u \in Users, data \in {"q1:plus", "q1:minus"}, d \in Days, n \in 1..MaxSends :
        /\ n <= sent_count(d, "Q1")
        /\ LET ins == get_or_create_session(sessions, now.d)
               hits == { s \in sessions \cup ins :
                            /\ s.session_date = d
                            /\ <<s.session_id, "Q1">> \in DOMAIN session_messages
                            /\ session_messages[<<s.session_id, "Q1">>] = n }
               base == [IdleHnd EXCEPT !.pc = "answer", !.name = "q1_callbacks", !.user = u,
                                       !.ld = now.d, !.lt = now.t,
                                       !.enable = ~is_enabled, !.sess_new = ins]
           IN IF hits = {}
              THEN hnd' = base
              ELSE LET sess == CHOOSE s \in hits : TRUE
                   IN IF sess.status = "closed"
                      THEN hnd' = base
                      ELSE IF data = "q1:minus"
                           THEN hnd' = [base EXCEPT !.sid = sess.session_id,
                                                    !.poops = apply_minus(sess.session_id, u)]
                           ELSE /\ poops_of(user_states, sess.session_id, u) < MaxPoops
                                /\ hnd' = [base EXCEPT !.sid = sess.session_id,
                                                       !.member = u \notin chat_members,
                                                       !.poops = apply_plus(sess.session_id, u)]
    /\ UNCHANGED auxVars
    /\ UNCHANGED <<now, epoch, is_enabled, notifications_enabled, sessions, session_messages,
                   command_messages, user_states, chat_members, user_streaks,
                   streak_recalc_date, sent, sch, h, faults>>

\* q1_callbacks runs to the end of its with-block: session.commit().
HCommit ==
    /\ hnd.pc = "answer"
    /\ sch.pc # "commit"
    /\ IF /\ \A r \in hnd.sess_new : unique_session_key(sessions, r)
          /\ inserts_fit(session_messages, hnd.smsg)
       THEN /\ is_enabled' = (is_enabled \/ hnd.enable)
            /\ session_messages' = Override(hnd.smsg, session_messages)
            /\ sessions' = commit_sessions(sessions, [sess_new |-> hnd.sess_new, closed |-> {}])
            /\ user_states' = IF hnd.poops = NoRow THEN user_states
                              ELSE with_poops(user_states, hnd.sid, hnd.user, hnd.poops)
            /\ chat_members' = IF hnd.member THEN chat_members \cup {hnd.user} ELSE chat_members
            /\ user_streaks' = IF hnd.member /\ hnd.user \notin DOMAIN user_streaks
                               THEN Put(user_streaks, hnd.user, FreshStreak)
                               ELSE user_streaks
       ELSE UNCHANGED <<is_enabled, sessions, session_messages, user_states, chat_members,
                        user_streaks>>
    /\ hnd' = IdleHnd
    /\ UNCHANGED auxVars
    /\ UNCHANGED <<now, epoch, notifications_enabled, command_messages,
                   streak_recalc_date, sent, sch, h, faults>>

\* cb.answer or a later edit raises: the transaction is rolled back.
HRollback ==
    /\ hnd.pc = "answer"
    /\ sch.pc # "commit"
    /\ hnd' = IdleHnd
    /\ UNCHANGED auxVars
    /\ UNCHANGED <<now, epoch, is_enabled, notifications_enabled, sessions, session_messages,
                   command_messages, user_states, chat_members, user_streaks,
                   streak_recalc_date, sent, sch, h, faults>>

\* The process is restarted: coroutines in flight are lost with their
\* transactions, and the in-memory marker _streak_recalc_date is empty again.
Restart ==
    /\ sch.pc # "commit"
    /\ sch.pc # "idle" \/ hnd.pc # "idle" \/ streak_recalc_date # NoDate
    /\ faults < MaxFaults
    /\ faults' = faults + 1
    /\ sch' = IdleSch
    /\ hnd' = IdleHnd
    /\ streak_recalc_date' = NoDate
    /\ UNCHANGED auxVars
    /\ UNCHANGED <<now, epoch, is_enabled, notifications_enabled, sessions, session_messages,
                   command_messages, user_states, chat_members, user_streaks, sent, h>>

Next ==
    \/ Advance
    \/ TickStart
    \/ TransportOk
    \/ TransportForbidden
    \/ TransportError
    \/ SchCommit
    \/ HEarlyReturn
    \/ HBlocked
    \/ HStart
    \/ HCommit
    \/ HRollback
    \/ Restart

Spec == Init /\ [][Next]_vars

SpecNotify == InitNotify /\ [][Next]_vars

\* ------------------------------------------- liveness of closing (SpecFair)
\* The chat on the day before the last one, right after the scheduler posted
\* Q1, Q2 and Q3 for that day: from here the ticks keep running, and a
\* transport call may fail any number of times.

InitFair ==
    /\ now = [d |-> MaxDay - 1, t |-> PostTime]
    /\ epoch = "plain"
    /\ is_enabled = TRUE
    /\ notifications_enabled = TRUE
    /\ sessions = {[session_id |-> 1, session_date |-> MaxDay - 1, status |-> "active"]}
    /\ session_messages = [k \in {<<1, "Q1">>, <<1, "Q2">>, <<1, "Q3">>} |->
                              IF k[2] = "Q1" THEN 1 ELSE AnyMid]
    /\ command_messages = EmptyFn
    /\ user_states = EmptyFn
    /\ chat_members = {}
    /\ user_streaks = EmptyFn
    /\ streak_recalc_date = NoDate
    /\ sent = [k \in {<<MaxDay - 1, "Q1">>} |-> 1]
    /\ faults = 0
    /\ sch = IdleSch
    /\ hnd = IdleHnd
    /\ h = NoHarness
    /\ AuxAtRest

\* The transport call raises an error other than Forbidden, as TransportError
\* does, any number of times.
TransportFails ==
    /\ sch.pc \in AwaitPcs
    /\ sch' = IdleSch
    /\ UNCHANGED auxVars
    /\ UNCHANGED <<now, epoch, is_enabled, notifications_enabled, sessions, session_messages,
                   command_messages, user_states, chat_members, user_streaks,
                   streak_recalc_date, sent, faults, hnd, h>>

NextFair ==
    \/ Advance
    \/ TickStart
    \/ TransportOk
    \/ TransportFails
    \/ SchCommit
    \/ HStart
    \/ HCommit
    \/ HRollback

\* The interval trigger keeps firing _tick, a transport call returns or
\* raises, and the with-block is left.
SpecFair ==
    /\ InitFair
    /\ [][NextFair]_vars
    /\ WF_vars(TickStart)
    /\ WF_vars(TransportOk \/ TransportFails)
    /\ WF_vars(SchCommit)

\* ------------------------------------------------ lifecycle claims (Spec)

RECURSIVE Ascending(_)
Ascending(q) ==
    IF Len(q) <= 1 THEN TRUE
    ELSE q[1] <= q[2] /\ Ascending(Tail(q))

\* C1: a scheduler-initiated message of one kind is sent at most once for a
\* chat and a local date, however many ticks fall into its trigger minute.
Cex_C1_IdempotentSends ==
    \A k \in DOMAIN sent : sent[k] <= 1

\* C2: at most one Session row exists for the chat and a local date, also
\* when get_or_create_session runs in two transactions at once.
Thm_C2_OneSessionPerDate ==
    \A s \in sessions : \A q \in sessions :
        s.session_date = q.session_date => s = q

\* The Q1 callback holds a pending insert for a date whose Session the
\* scheduler has committed meanwhile.
Wit_C2_OneSessionPerDate ==
    /\ hnd.pc = "answer"
    /\ \E r \in hnd.sess_new : \E s \in sessions : s.session_date = r.session_date

\* C3: a Closed session stays Closed, and an Active session appears only for
\* a date that had no Session.
Thm_C3_ClosedStaysClosed ==
    [][ /\ \A s \in sessions : s.status = "closed" => s \in sessions'
        /\ \A s \in sessions' :
              (s.status = "active" /\ s \notin sessions)
                  => \A q \in sessions : q.session_date # s.session_date ]_vars

\* A tick finds the day's Session Closed and leaves it so, while an Active
\* Session of a later date exists.
Wit_C3_ClosedStaysClosed ==
    /\ sch.pc = "commit"
    /\ \E s \in sessions :
          /\ s.status = "closed"
          /\ s.session_id = sch.cur
          /\ s.session_date = sch.ld
    /\ sch.ws.closed = {}

\* C4: a tick closes a session only if the session's date is before the
\* tick's local date, or is that date at 23:55 or later; when the tick's
\* transaction is about to commit, every Active session it selected that
\* meets this rule is Closed, and so is the day's own session at 23:55 or
\* later; the sessions are closed in ascending date order.
Thm_C4_CloseRule ==
    /\ [](sch.pc = "commit" =>
            /\ \A s \in view_sessions(sch.ws) :
                  (/\ s.session_id \in sch.seen
                   /\ \/ s.session_date < sch.ld
                      \/ s.session_date = sch.ld /\ sch.lt >= CloseCutoff)
                      => s.status = "closed"
            /\ sch.lt >= CloseCutoff =>
                  \E s \in view_sessions(sch.ws) :
                      s.session_date = sch.ld /\ s.status = "closed")
    /\ [](Ascending(sch.closed_log))
    /\ [][ \A s \in sessions' :
              (s.status = "closed" /\ s \notin sessions)
                  => /\ sch.pc = "commit"
                     /\ \/ s.session_date < sch.ld
                        \/ s.session_date = sch.ld /\ sch.lt >= CloseCutoff ]_vars

\* A tick is about to commit the close of two past sessions.
Wit_C4_CloseRule ==
    /\ sch.pc = "commit"
    /\ Len(sch.closed_log) >= 2
    /\ sch.closed_log[1] < sch.closed_log[2]

\* C5: for an enabled chat whose ticks keep running, an Active session of a
\* past date, or of the local date once 23:55 is reached, is eventually
\* Closed, whatever the lock edits return.
Cex_C5_EventuallyClosed ==
    \A d \in Days :
        (/\ is_enabled
         /\ d < now.d \/ (d = now.d /\ now.t >= CloseCutoff)
         /\ \E s \in sessions : s.session_date = d /\ s.status = "active")
        ~> (\/ ~is_enabled
            \/ \E s \in sessions : s.session_date = d /\ s.status = "closed")

\* C10: current_streak is never negative, and a positive current_streak has
\* last_poop_date on the chat's local date or the day before.
Cex_C10_StreakRecency ==
    \A u \in DOMAIN user_streaks :
        /\ user_streaks[u].current_streak >= 0
        /\ user_streaks[u].current_streak > 0
              => user_streaks[u].last_poop_date \in {now.d, now.d - 1}

\* ------------------------------------------ the sweep over chats (SpecSweep)
\* _tick reads the enabled chats and runs _process_chat for each in turn.
\* Every chat's pipeline is followed through the catch-up close with the
\* lock of the Q1 message (_safe_edit_message_text), get_or_create_session
\* and the Q1 post (_safe_send_message); a Session row carries its Q1
\* correlation entry as the field q1.

MaxChats == 3            \* chats 1..MaxChats
RetryAttempts == 3       \* for _ in range(3)
SweepDays == 2           \* local dates 1..SweepDays of the sweep

ChatIds == 1..MaxChats

\* What the running tick did for one chat: calls of _process_chat, whether
\* the call got past its is_enabled check, exceptions that left it (and
\* whether one was TelegramForbiddenError), records written to the log by
\* _tick, a wrapper that used up its attempts, and the commit of the
\* pipeline's transaction.
NoNote == [invoked |-> 0, ran |-> FALSE, raised |-> 0, forbidden |-> FALSE,
           logged |-> 0, exhausted |-> FALSE, committed |-> FALSE]

NoNotes == [c \in ChatIds |-> NoNote]

IdleSweep == [pc |-> "idle", chats |-> <<>>, i |-> 0, cur |-> 0, lt |-> 0, ld |-> 0,
              view |-> {}, queue |-> <<>>, after |-> "loop", attempt |-> 0,
              instances |-> 0, skipped |-> FALSE]

\* The orders in which the select without ORDER BY may return the rows S.
Orders(S) ==
    { f \in [1..Cardinality(S) -> S] : \A i, j \in 1..Cardinality(S) : f[i] = f[j] => i = j }

\* select(Chat).where(Chat.is_enabled == True)
enabled_chats(cs) == { c \in DOMAIN cs : cs[c].is_enabled }

sweep_get_or_create_session(view, d) ==
    IF \E s \in view : s.session_date = d
    THEN view
    ELSE view \cup {[session_date |-> d, status |-> "active", q1 |-> NoMid]}

\* sess.status = "closed" in _close_session
sweep_close_session(view, d) ==
    { IF s.session_date = d THEN [s EXCEPT !.status = "closed"] ELSE s : s \in view }

\* set_session_message_id(db, session_id, "Q1", sent.message_id)
sweep_set_q1(view, d) ==
    { IF s.session_date = d THEN [s EXCEPT !.q1 = AnyMid] ELSE s : s \in view }

\* Control enters _safe_send_message or _safe_edit_message_text: the first
\* pass of the loop awaits the transport.
safe_call(st, kind, after) == [st EXCEPT !.pc = kind, !.attempt = 1, !.after = after]

sweep_post_q1(st) ==
    LET s == session_for_date(st.view, st.ld)
    IN IF /\ notifications_enabled
          /\ hour(st.lt) = hour(PostTime) /\ minute(st.lt) = minute(PostTime)
          /\ s.q1 = NoMid
       THEN safe_call(st, "send", "return")
       ELSE AtCommit(st)

\* _close_session up to _lock_q1: the status is written.
sweep_mark_closed(st, s) == [st EXCEPT !.view = sweep_close_session(@, s.session_date)]

sweep_process_session(st) ==
    LET st1 == [st EXCEPT !.view = sweep_get_or_create_session(@, st.ld)]
        s == session_for_date(st1.view, st.ld)
    IN IF st.lt >= CloseCutoff
       THEN IF s.status # "closed"
            THEN IF s.q1 # NoMid
                 THEN safe_call(sweep_mark_closed(st1, s), "edit", "return")
                 ELSE AtCommit(sweep_mark_closed(st1, s))
            ELSE AtCommit(st1)
       ELSE IF s.status = "closed"
            THEN AtCommit(st1)
            ELSE IF get_session_window([d |-> st.ld, t |-> st.lt]).is_blocked_window
                 THEN AtCommit(st1)
                 ELSE sweep_post_q1(st1)

RECURSIVE sweep_close_loop(_)
sweep_close_loop(st) ==
    IF st.queue = <<>>
    THEN sweep_process_session(st)
    ELSE LET s == Head(st.queue)
             rest == [st EXCEPT !.queue = Tail(@)]
         IN IF is_past_day(s, st) \/ is_today_after_cutoff(s, st)
            THEN IF s.q1 # NoMid
                 THEN safe_call(sweep_mark_closed(rest, s), "edit", "loop")
                 ELSE sweep_close_loop(sweep_mark_closed(rest, s))
            ELSE sweep_close_loop(rest)

\* _process_chat(bot, session_factory, chat_id) entered at clock, up to its
\* first transport call, its return at the is_enabled check, or its end.
sweep_process_chat(sw, cs, c, clock) ==
    IF ~cs[c].is_enabled
    THEN [sw EXCEPT !.pc = "return", !.cur = c]
    ELSE sweep_close_loop([sw EXCEPT !.cur = c, !.lt = clock.t, !.ld = clock.d,
                                     !.view = cs[c].sessions,
                                     !.queue = order_by_session_date(
                                                   ActiveSessions(cs[c].sessions))])

\* The pipeline after the wrapper at st.pc has returned.
sweep_resume(st) ==
    IF st.pc = "send"
    THEN AtCommit([st EXCEPT !.view = sweep_set_q1(@, st.ld)])
    ELSE IF st.after = "loop" THEN sweep_close_loop(st) ELSE AtCommit(st)

\* _tick after the try statement of its sw.i-th chat: the throttle sleep.
tick_next(sw) == [IdleSweep EXCEPT !.pc = "throttle", !.chats = sw.chats, !.i = sw.i,
                                   !.instances = sw.instances, !.skipped = sw.skipped]

\* _tick's except clauses: the exception ends in the handler and the loop
\* goes on.
tick_except_abort(sw) == IdleSweep

tick_except(sw) == tick_next(sw)

\* stale_chat.is_enabled = False
disable_chat_skipped(cs, c) == cs

disable_chat(cs, c) == [cs EXCEPT ![c].is_enabled = FALSE]

\* upsert_chat on an existing Chat row.
upsert_chat(cs, c) ==
    IF ~cs[c].is_enabled THEN [cs EXCEPT ![c].is_enabled = TRUE] ELSE cs

\* The with-block of _process_chat is left without an exception: commit.
Land(st, lg) ==
    IF st.pc = "commit"
    THEN /\ chats' = [chats EXCEPT ![st.cur].sessions = st.view]
         /\ sweep' = tick_next(st)
         /\ log' = [lg EXCEPT ![st.cur].committed = TRUE]
    ELSE IF st.pc = "return"
         THEN /\ chats' = chats
              /\ sweep' = tick_next(st)
              /\ log' = lg
         ELSE /\ chats' = chats
              /\ sweep' = st
              /\ log' = lg

\* await _process_chat(...) for the sw.i-th chat of the tick.
Invoke(sw, lg) ==
    LET c == sw.chats[sw.i]
        st == sweep_process_chat(sw, chats, c, now)
    IN Land(st, [lg EXCEPT ![c].invoked = @ + 1, ![c].ran = (st.pc # "return")])

\* An exception leaves _process_chat: rollback, and _tick writes its record.
Raise(cs, lg) ==
    /\ chats' = cs
    /\ sweep' = tick_except(sweep)
    /\ log' = [lg EXCEPT ![sweep.cur].raised = @ + 1, ![sweep.cur].logged = @ + 1]

InitSweep ==
    /\ now = [d |-> 1, t |-> PostTime]
    /\ CoreAtRest
    /\ chats = [c \in ChatIds |-> [is_enabled |-> TRUE, sessions |-> {}]]
    /\ sweep = IdleSweep
    /\ log = NoNotes
    /\ MsgAtRest /\ WindowAtRest /\ RateAtRest /\ CountAtRest

\* The interval trigger fires _tick: the enabled chats are read and the
\* first one is processed up to its first transport call.
SweepStart ==
    /\ sweep.pc = "idle"
    /\ enabled_chats(chats) # {}
    /\ \E order \in Orders(enabled_chats(chats)) :
         Invoke([IdleSweep EXCEPT !.chats = order, !.i = 1, !.instances = 1], NoNotes)
    /\ UNCHANGED <<countVars, coreVars, msgVars, windowVars, rateVars>>

\* The transport call returns (for an edit: also with a BadRequest that
\* _safe_edit_message_text swallows).
SweepCallOk ==
    /\ sweep.pc \in {"send", "edit"}
    /\ Land(sweep_resume(sweep), log)
    /\ UNCHANGED <<countVars, coreVars, msgVars, windowVars, rateVars>>

\* The transport call raises TelegramRetryAfter: _safe_sleep_on_retry sleeps
\* and the loop goes on.  After the last pass the wrapper returns None: the
\* caller of _safe_send_message fails on sent.message_id, the caller of
\* _safe_edit_message_text runs on.
SweepRetryAfter ==
    /\ sweep.pc \in {"send", "edit"}
    /\ IF sweep.attempt < RetryAttempts
       THEN /\ sweep' = [sweep EXCEPT !.attempt = @ + 1]
            /\ UNCHANGED <<chats, log>>
       ELSE IF sweep.pc = "send"
            THEN Raise(chats, [log EXCEPT ![sweep.cur].exhausted = TRUE])
            ELSE Land(sweep_resume(sweep), [log EXCEPT ![sweep.cur].exhausted = TRUE])
    /\ UNCHANGED <<countVars, coreVars, msgVars, windowVars, rateVars>>

\* The transport call raises TelegramForbiddenError: rollback, and _tick
\* disables the chat.
SweepForbidden ==
    /\ sweep.pc \in {"send", "edit"}
    /\ Raise(disable_chat(chats, sweep.cur), [log EXCEPT ![sweep.cur].forbidden = TRUE])
    /\ UNCHANGED <<countVars, coreVars, msgVars, windowVars, rateVars>>

\* The transport call raises any other exception: rollback, and _tick logs it.
SweepError ==
    /\ sweep.pc \in {"send", "edit"}
    /\ Raise(chats, log)
    /\ UNCHANGED <<countVars, coreVars, msgVars, windowVars, rateVars>>

\* The throttle sleep is over: the next chat of the tick, or the tick's end.
SweepNext ==
    /\ sweep.pc = "throttle"
    /\ IF sweep.i < Len(sweep.chats)
       THEN Invoke([sweep EXCEPT !.i = @ + 1], log)
       ELSE /\ sweep' = IdleSweep
            /\ log' = NoNotes
            /\ chats' = chats
    /\ UNCHANGED <<countVars, coreVars, msgVars, windowVars, rateVars>>

\* An inbound interaction in a disabled chat: the handler's upsert_chat.
SweepUpsert ==
    /\ \E c \in ChatIds :
         /\ ~chats[c].is_enabled
         /\ chats' = upsert_chat(chats, c)
    /\ UNCHANGED <<countVars, coreVars, sweep, log, msgVars, windowVars, rateVars>>

\* add_job(func=_tick, trigger=IntervalTrigger(seconds=30), max_instances=1, ...)
max_instances == 1

can_submit_always(instances) == TRUE

\* The scheduler submits a due run of the job only while fewer than
\* max_instances runs of it are executing.
can_submit(instances) == instances < max_instances

\* The interval trigger comes due while _tick is running: the run is
\* submitted next to the running one, or skipped.
SweepTrigger ==
    /\ sweep.pc # "idle"
    /\ sweep.instances <= max_instances
    /\ sweep' = IF can_submit(sweep.instances)
                THEN [sweep EXCEPT !.instances = @ + 1]
                ELSE [sweep EXCEPT !.skipped = TRUE]
    /\ UNCHANGED <<chats, log>>
    /\ UNCHANGED <<countVars, coreVars, msgVars, windowVars, rateVars>>

\* Between ticks the clock moves from the post time to the close cutoff and
\* on to the next day's post time.
SweepAdvance ==
    /\ sweep.pc = "idle"
    /\ now.d < SweepDays \/ now.t = PostTime
    /\ now' = IF now.t = PostTime
              THEN [now EXCEPT !.t = CloseCutoff]
              ELSE [d |-> now.d + 1, t |-> PostTime]
    /\ UNCHANGED <<epoch, is_enabled, notifications_enabled, sessions, session_messages,
                   command_messages, user_states, chat_members, user_streaks,
                   streak_recalc_date, sent, faults, sch, hnd, h>>
    /\ UNCHANGED auxVars

NextSweep ==
    \/ SweepStart
    \/ SweepCallOk
    \/ SweepRetryAfter
    \/ SweepForbidden
    \/ SweepError
    \/ SweepNext
    \/ SweepUpsert
    \/ SweepTrigger
    \/ SweepAdvance

SpecSweep == InitSweep /\ [][NextSweep]_vars

\* ------------------------------------------------ sweep claims (SpecSweep)

\* C11: failure isolation.  Whatever exceptions leave the pipelines of a
\* tick, when the tick ends _process_chat has been invoked exactly once for
\* every chat the tick read, and a chat whose pipeline raised has exactly
\* one record in the log.
Thm_C11_FailureIsolation ==
    /\ [](\A c \in ChatIds :
            /\ log[c].invoked <= 1
            /\ log[c].raised <= 1
            /\ log[c].logged = log[c].raised)
    /\ [][(sweep.pc # "idle" /\ sweep'.pc = "idle") =>
            \A i \in 1..Len(sweep.chats) : log[sweep.chats[i]].invoked = 1]_vars

\* A tick over all chats sleeps after its last chat: a chat in the middle
\* raised, every other chat's pipeline was committed.
Wit_C11_FailureIsolation ==
    /\ sweep.pc = "throttle"
    /\ Len(sweep.chats) = MaxChats
    /\ sweep.i = MaxChats
    /\ \E k \in 2..(MaxChats - 1) :
          /\ log[sweep.chats[k]].raised = 1
          /\ log[sweep.chats[k]].logged = 1
          /\ \A j \in (1..MaxChats) \ {k} :
                /\ log[sweep.chats[j]].invoked = 1
                /\ log[sweep.chats[j]].committed

\* C12: a TelegramForbiddenError from a chat's pipeline sets the chat's
\* is_enabled to false, and while is_enabled stays false no tick runs the
\* pipeline for the chat: no transport call or commit is in progress for it
\* and no later call of _process_chat gets past the is_enabled check.
Thm_C12_ForbiddenDisables ==
    /\ [][\A c \in ChatIds :
            (~log[c].forbidden /\ log'[c].forbidden) => ~chats'[c].is_enabled]_vars
    /\ [](sweep.pc \in {"send", "edit"} => chats[sweep.cur].is_enabled)
    /\ [][\A c \in ChatIds :
            (~chats[c].is_enabled /\ ~log[c].ran) => ~log'[c].ran]_vars
    /\ [][\A c \in ChatIds :
            (~chats[c].is_enabled /\ chats'[c].is_enabled) => sweep' = sweep]_vars

\* A chat disabled by an earlier tick is left out of the tick that has just
\* processed all the other chats.
Wit_C12_ForbiddenDisables ==
    \E c \in ChatIds :
        /\ ~chats[c].is_enabled
        /\ log[c].invoked = 0
        /\ sweep.pc = "throttle"
        /\ Len(sweep.chats) = MaxChats - 1
        /\ sweep.i = MaxChats - 1
        /\ \A j \in 1..(MaxChats - 1) : log[sweep.chats[j]].ran

\* C13: a wrapper makes at most RetryAttempts transport attempts, and when
\* TelegramRetryAfter has used them up the chat's pipeline is skipped for the
\* tick: its transaction is not committed.
Cex_C13_RetryThenSkip ==
    /\ sweep.pc \in {"send", "edit"} => sweep.attempt <= RetryAttempts
    /\ \A c \in ChatIds : log[c].exhausted => ~log[c].committed

\* ------------------------------- a session's messages at the transport (SpecMsg)
\* One active session of one member, and every operation that sends, edits
\* or locks its correlated messages, each in a transaction of its own:
\* _post_q1, start_cmd, the tail of q1_callbacks, _refresh_current_q1_view,
\* _send_late_reminder and _close_session.  The transport keeps the messages
\* and answers an edit by what it holds: "message to edit not found" for a
\* deleted message, "message is not modified" for the text it already shows.

MaxMsgs == 5             \* messages the transport holds for the chat

LockKinds == <<"Q1", "Q2", "Q3", "reminder22", "late_reminder">>

IdleOp == [pc |-> "idle", name |-> "none", sid |-> 0, ld |-> 0,
           smsg |-> EmptyFn, cmsg |-> EmptyFn, closed |-> {}, streaks |-> EmptyFn,
           poops |-> NoRow,
           notfound |-> {}, unmodified |-> {}, sends |-> <<>>]

\* The text an operation renders: it shows the member's poops_n as the
\* operation's transaction reads it.
render(st) ==
    IF st.poops # NoRow THEN st.poops
    ELSE poops_of(user_states, st.sid, CHOOSE u \in chat_members : TRUE)

\* The id a correlated kind is recorded under, as the transaction reads it.
entry_of(st, kind) ==
    IF kind \in {"Q1", "Q2", "Q3"}
    THEN get_session_message_id(st, st.sid, kind)
    ELSE get_command_message_id(st, kind, st.ld)

set_entry(st, kind, mid) ==
    IF kind \in {"Q1", "Q2", "Q3"}
    THEN [st EXCEPT !.smsg = Put(@, <<st.sid, kind>>, mid)]
    ELSE [st EXCEPT !.cmsg = Put(@, <<kind, st.ld>>, mid)]

\* bot.edit_message_text(message_id=mid, text=text) with a keyboard.
edit_reply(mid, text) ==
    IF ~tg[mid].alive THEN "not_found"
    ELSE IF tg[mid].shown = text /\ ~tg[mid].locked THEN "not_modified"
    ELSE "ok"

\* bot.edit_message_text(message_id=mid, text=LOCK_LINE + ..., reply_markup=None)
lock_reply(mid) ==
    IF ~tg[mid].alive THEN "not_found"
    ELSE IF tg[mid].locked THEN "not_modified"
    ELSE "ok"

OpAt(st, pc) == [st EXCEPT !.pc = pc]
OpDone(st) == [st EXCEPT !.pc = "done"]

\* The reply of an edit is kept with the operation.
note_reply(st, kind, reply) ==
    IF reply = "not_found" THEN [st EXCEPT !.notfound = @ \cup {kind}]
    ELSE IF reply = "not_modified" THEN [st EXCEPT !.unmodified = @ \cup {kind}]
    ELSE st

\* ensure_q2_q3_exist from q3_id = get_session_message_id(..., "Q3") on.
ensure_q3(st) ==
    IF entry_of(st, "Q3") # NoMid THEN OpAt(st, "edit_Q3") ELSE OpAt(st, "send_Q3")

ensure_q2_q3_exist(st) ==
    IF entry_of(st, "Q1") = NoMid THEN OpDone(st)
    ELSE IF entry_of(st, "Q2") # NoMid THEN OpAt(st, "edit_Q2") ELSE OpAt(st, "send_Q2")

\* _close_session's lock calls from the i-th on: the first kind that has an
\* entry is edited, a kind without one is passed over.
RECURSIVE lock_from(_, _)
lock_from(st, i) ==
    IF i > Len(LockKinds) THEN OpDone(st)
    ELSE IF entry_of(st, LockKinds[i]) # NoMid
         THEN OpAt(st, LockKinds[i])
         ELSE lock_from(st, i + 1)

LockIndex(kind) == CHOOSE i \in 1..Len(LockKinds) : LockKinds[i] = kind

\* _close_session up to its first lock edit.
msg_close_session(st) ==
    lock_from([st EXCEPT !.closed = {st.sid},
                         !.streaks = close_session_streaks(user_streaks, user_states,
                                                           st.sid, st.ld)], 1)

\* The operation after the send at st.pc returned message id mid.
after_send(st, kind, mid) ==
    LET st1 == [set_entry(st, kind, mid) EXCEPT !.sends = Append(@, kind)]
    IN CASE kind = "Q1" -> ensure_q2_q3_exist(st1)
         [] kind = "Q2" -> ensure_q3(st1)
         [] OTHER -> OpDone(st1)

\* ensure_q2_q3_exist after its edit of Q2 or Q3 was answered: alive unless
\* the message is not found, and a fresh send otherwise.
after_ensure_edit_resend(st, kind, reply) ==
    LET st1 == note_reply(st, kind, reply)
    IN OpAt(st1, IF kind = "Q2" THEN "send_Q2" ELSE "send_Q3")

after_ensure_edit(st, kind, reply) ==
    LET st1 == note_reply(st, kind, reply)
    IN IF reply = "not_found"
       THEN OpAt(st1, IF kind = "Q2" THEN "send_Q2" ELSE "send_Q3")
       ELSE IF kind = "Q2" THEN ensure_q3(st1) ELSE OpDone(st1)

\* _close_session after a lock edit was answered: _safe_edit_message_text
\* has returned, and the lock of the next kind follows.
after_lock_stops(st, kind, reply) ==
    IF reply = "not_found"
    THEN OpDone(note_reply(st, kind, reply))
    ELSE lock_from(note_reply(st, kind, reply), LockIndex(kind) + 1)

after_lock(st, kind, reply) ==
    lock_from(note_reply(st, kind, reply), LockIndex(kind) + 1)

\* The transport's messages after an edit with text was answered.
tg_after_edit(mid, text, reply) ==
    IF reply = "ok" THEN [tg EXCEPT ![mid].shown = text] ELSE tg

tg_after_lock(mid, reply) ==
    IF reply = "ok" THEN [tg EXCEPT ![mid].locked = TRUE] ELSE tg

NewMessage(text) == [alive |-> TRUE, locked |-> FALSE, shown |-> text]

InitMsg ==
    /\ now = [d |-> 1, t |-> PostTime]
    /\ epoch = "plain"
    /\ is_enabled = TRUE
    /\ notifications_enabled = TRUE
    /\ sessions = {[session_id |-> 1, session_date |-> 1, status |-> "active"]}
    /\ session_messages = EmptyFn
    /\ command_messages = EmptyFn
    /\ user_states = EmptyFn
    /\ chat_members = {1}
    /\ user_streaks = [u \in {1} |-> FreshStreak]
    /\ streak_recalc_date = NoDate
    /\ sent = EmptyFn
    /\ faults = 0
    /\ sch = IdleSch
    /\ hnd = IdleHnd
    /\ h = NoHarness
    /\ tg = <<>>
    /\ op = IdleOp
    /\ SweepAtRest /\ WindowAtRest /\ RateAtRest /\ CountAtRest

\* The day's session while it is active.
ActiveToday == { s \in sessions : s.session_date = now.d /\ s.status = "active" }

BeginOp(name) ==
    LET s == CHOOSE s \in ActiveToday : TRUE
    IN [IdleOp EXCEPT !.name = name, !.sid = s.session_id, !.ld = s.session_date]

\* _process_chat at the post time: _post_q1 when the session has no Q1 entry.
MsgPost ==
    /\ op.pc = "idle" /\ ActiveToday # {}
    /\ entry_of(BeginOp("post"), "Q1") = NoMid
    /\ op' = OpAt(BeginOp("post"), "send_Q1")
    /\ UNCHANGED <<countVars, coreVars, tg, sweepVars, windowVars, rateVars>>

\* start_cmd in the open window: a reply under the recorded Q1 message, or a
\* new Q1 post when there is none.
MsgStart ==
    /\ op.pc = "idle" /\ ActiveToday # {}
    /\ op' = IF entry_of(BeginOp("start"), "Q1") # NoMid
             THEN OpAt(BeginOp("start"), "reply")
             ELSE OpAt(BeginOp("start"), "send_Q1")
    /\ UNCHANGED <<countVars, coreVars, tg, sweepVars, windowVars, rateVars>>

\* q1_callbacks for q1:plus or q1:minus of the member, from apply_plus /
\* apply_minus to the refresh of Q1: an edit of the recorded message, or a
\* send when none is recorded.
MsgCallback ==
    /\ op.pc = "idle" /\ ActiveToday # {}
    /\ \E data \in {"q1:plus", "q1:minus"} :
         LET st == BeginOp("q1_callbacks")
             u == CHOOSE u \in chat_members : TRUE
             n == IF data = "q1:plus" THEN apply_plus(st.sid, u) ELSE apply_minus(st.sid, u)
             st1 == [st EXCEPT !.poops = n]
         IN /\ n # NoRow => n <= MaxPoops
            /\ op' = IF entry_of(st1, "Q1") # NoMid
                     THEN OpAt(st1, "edit_Q1_cb")
                     ELSE OpAt(st1, "send_Q1")
    /\ UNCHANGED <<countVars, coreVars, tg, sweepVars, windowVars, rateVars>>

\* _refresh_current_q1_view after the nightly recalculation.
MsgRefresh ==
    /\ op.pc = "idle" /\ ActiveToday # {}
    /\ entry_of(BeginOp("refresh"), "Q1") # NoMid
    /\ op' = OpAt(BeginOp("refresh"), "edit_Q1")
    /\ UNCHANGED <<countVars, coreVars, tg, sweepVars, windowVars, rateVars>>

\* _send_late_reminder at 23:30.
MsgLate ==
    /\ op.pc = "idle" /\ ActiveToday # {}
    /\ LET st == BeginOp("late_reminder")
       IN /\ entry_of(st, "Q1") # NoMid
          /\ entry_of(st, "late_reminder") = NoMid
          /\ build_late_reminder_text(st.sid)
          /\ op' = OpAt(st, "send_late_reminder")
    /\ UNCHANGED <<countVars, coreVars, tg, sweepVars, windowVars, rateVars>>

\* _close_session at the close cutoff.
MsgClose ==
    /\ op.pc = "idle" /\ ActiveToday # {}
    /\ op' = msg_close_session(BeginOp("close"))
    /\ UNCHANGED <<countVars, coreVars, tg, sweepVars, windowVars, rateVars>>

\* bot.send_message returns the new message.  The late reminder is sent as
\* a reply under Q1, which has to be there.
MsgSend ==
    /\ op.pc \in {"send_Q1", "send_Q2", "send_Q3", "send_late_reminder"}
    /\ op.pc = "send_late_reminder" => tg[entry_of(op, "Q1")].alive
    /\ Len(tg) < MaxMsgs
    /\ LET kind == CASE op.pc = "send_Q1" -> "Q1"
                     [] op.pc = "send_Q2" -> "Q2"
                     [] op.pc = "send_Q3" -> "Q3"
                     [] OTHER -> "late_reminder"
       IN /\ tg' = Append(tg, NewMessage(render(op)))
          /\ op' = after_send(op, kind, Len(tg) + 1)
    /\ UNCHANGED <<countVars, coreVars, sweepVars, windowVars, rateVars>>

\* The late reminder's send raises "message to be replied not found": the
\* exception leaves the with-block and the transaction is rolled back.
MsgReplyGone ==
    /\ op.pc = "send_late_reminder"
    /\ ~tg[entry_of(op, "Q1")].alive
    /\ op' = IdleOp
    /\ UNCHANGED <<countVars, coreVars, tg, sweepVars, windowVars, rateVars>>

\* The transport answers an edit of ensure_q2_q3_exist.
MsgEnsureEdit ==
    /\ op.pc \in {"edit_Q2", "edit_Q3"}
    /\ LET kind == IF op.pc = "edit_Q2" THEN "Q2" ELSE "Q3"
           mid == entry_of(op, kind)
           reply == edit_reply(mid, render(op))
       IN /\ tg' = tg_after_edit(mid, render(op), reply)
          /\ op' = after_ensure_edit(op, kind, reply)
    /\ UNCHANGED <<countVars, coreVars, sweepVars, windowVars, rateVars>>

\* The transport answers the edit of Q1: _safe_edit_message_text returns
\* whatever the answer (edit_Q1), q1_callbacks passes over or logs a
\* BadRequest and goes on to ensure_q2_q3_exist (edit_Q1_cb).
MsgEditQ1 ==
    /\ op.pc \in {"edit_Q1", "edit_Q1_cb"}
    /\ LET mid == entry_of(op, "Q1")
           reply == edit_reply(mid, render(op))
           st == note_reply(op, "Q1", reply)
       IN /\ tg' = tg_after_edit(mid, render(op), reply)
          /\ op' = IF op.pc = "edit_Q1" THEN OpDone(st) ELSE ensure_q2_q3_exist(st)
    /\ UNCHANGED <<countVars, coreVars, sweepVars, windowVars, rateVars>>

\* start_cmd's reply under Q1: sent, or "message to be replied not found"
\* and the Q1 post follows.
MsgReply ==
    /\ op.pc = "reply"
    /\ op' = IF tg[entry_of(op, "Q1")].alive
             THEN ensure_q2_q3_exist(op)
             ELSE OpAt(note_reply(op, "Q1", "not_found"), "send_Q1")
    /\ UNCHANGED <<countVars, coreVars, tg, sweepVars, windowVars, rateVars>>

\* The transport answers a lock edit of _close_session:
\* _safe_edit_message_text returns and the next lock follows.
MsgLock ==
    /\ op.pc \in {LockKinds[i] : i \in 1..Len(LockKinds)}
    /\ LET mid == entry_of(op, op.pc)
           reply == lock_reply(mid)
       IN /\ tg' = tg_after_lock(mid, reply)
          /\ op' = after_lock(op, op.pc, reply)
    /\ UNCHANGED <<countVars, coreVars, sweepVars, windowVars, rateVars>>

\* The with-block of the operation is left: commit.
MsgCommit ==
    /\ op.pc = "done"
    /\ sessions' = apply_closed(sessions, op.closed)
    /\ session_messages' = view_session_messages(op)
    /\ command_messages' = view_command_messages(op)
    /\ user_streaks' = view_streaks(op)
    /\ user_states' = IF op.poops = NoRow THEN user_states
                      ELSE with_poops(user_states, op.sid,
                                      CHOOSE u \in chat_members : TRUE, op.poops)
    /\ op' = IdleOp
    /\ UNCHANGED <<now, epoch, is_enabled, notifications_enabled, chat_members,
                   streak_recalc_date, sent, faults, sch, hnd, h>>
    /\ UNCHANGED <<countVars, tg, sweepVars, windowVars, rateVars>>

\* A message of the chat is deleted by hand.
MsgDelete ==
    /\ op.pc # "done"
    /\ \E mid \in 1..Len(tg) :
         /\ tg[mid].alive
         /\ tg' = [tg EXCEPT ![mid].alive = FALSE]
    /\ UNCHANGED <<countVars, coreVars, op, sweepVars, windowVars, rateVars>>

NextMsg ==
    \/ MsgPost
    \/ MsgStart
    \/ MsgCallback
    \/ MsgRefresh
    \/ MsgLate
    \/ MsgClose
    \/ MsgSend
    \/ MsgReplyGone
    \/ MsgEnsureEdit
    \/ MsgEditQ1
    \/ MsgReply
    \/ MsgLock
    \/ MsgCommit
    \/ MsgDelete

SpecMsg == InitMsg /\ [][NextMsg]_vars

\* -------------------------------------------------- message claims (SpecMsg)

Count(q, x) == Cardinality({i \in 1..Len(q) : q[i] = x})

\* The entry of a kind as committed before the operation.
committed_entry(kind) == entry_of([IdleOp EXCEPT !.sid = op.sid, !.ld = op.ld], kind)

Refreshes == {"refresh", "q1_callbacks", "start"}

\* C14: self-heal.  When an operation that refreshes the session's messages
\* is answered "not found" for the message a kind's entry points at, it ends
\* with exactly one fresh send of that kind and the entry overwritten with
\* the new id.
Cex_C14_SelfHeal ==
    (op.pc = "done" /\ op.name \in Refreshes) =>
        \A kind \in op.notfound :
            /\ Count(op.sends, kind) = 1
            /\ entry_of(op, kind) # committed_entry(kind)

\* C15: an edit answered "message is not modified" counts as done: the
\* operation runs to its end, sends no fresh message of the kind and leaves
\* the kind's entry as it was.
Thm_C15_UnmodifiedIsSuccess ==
    /\ [](\A kind \in op.unmodified :
            /\ Count(op.sends, kind) = 0
            /\ entry_of(op, kind) = committed_entry(kind))
    /\ [][op.unmodified # {} => (op'.name = op.name \/ op.pc = "done")]_vars

\* ensure_q2_q3_exist ends after both its edits were answered "not modified".
Wit_C15_UnmodifiedIsSuccess ==
    /\ op.pc = "done"
    /\ {"Q2", "Q3"} \subseteq op.unmodified
    /\ op.sends = <<>>

\* C16: _close_session with correlated messages that have no entry or were
\* deleted runs to its end: the session is committed closed with the streak
\* update applied, and every recorded message that is still there is locked.
Thm_C16_CloseBestEffort ==
    /\ []((op.name = "close" /\ op.pc = "done") =>
            \A i \in 1..Len(LockKinds) :
                LET mid == entry_of(op, LockKinds[i])
                IN (mid # NoMid /\ tg[mid].alive) => tg[mid].locked)
    /\ [][op.name = "close" =>
            \/ op'.name = "close"
            \/ /\ op.pc = "done"
               /\ \A s \in sessions' : s.session_id = op.sid => s.status = "closed"
               /\ \A u \in DOMAIN user_streaks :
                     IF poops_of(user_states, op.sid, u) > 0
                     THEN /\ user_streaks'[u].last_poop_date = op.ld
                          /\ user_streaks'[u].current_streak >= 1
                     ELSE user_streaks'[u].current_streak = 0]_vars

\* A close ends: Q1 was deleted, no late reminder was recorded, and Q2 and
\* Q3 are locked.
Wit_C16_CloseBestEffort ==
    /\ op.name = "close" /\ op.pc = "done"
    /\ "Q1" \in op.notfound
    /\ entry_of(op, "late_reminder") = NoMid
    /\ entry_of(op, "Q2") # NoMid /\ tg[entry_of(op, "Q2")].locked
    /\ entry_of(op, "Q3") # NoMid /\ tg[entry_of(op, "Q3")].locked


\* --------------------------------------------------- SpecWindow
\* get_session_window is read at instants on both sides of 00:05:00 and
\* 23:55:00 and at the full hours of the local day, in zones east and west
\* of UTC.

WinDays == 2         \* local dates 1..WinDays of the sampled instants
Margin == 3          \* seconds sampled on each side of a boundary

\* utcoffset of the sampled zones, in seconds.
Offsets == {0 - 5 * 3600, 0, 3 * 3600}

SampleSeconds ==
    {s \in 0..(DaySeconds - 1) :
        \/ s <= Margin
        \/ s >= DaySeconds - 1 - Margin
        \/ (s >= WindowStart - Margin /\ s <= WindowStart + Margin)
        \/ (s >= WindowEnd - Margin /\ s <= WindowEnd + Margin)
        \/ s % 3600 = 0}

\* The instants at which the local clock of a zone shows a sampled second
\* of a date in 1..WinDays.
Instants(off) == {d * DaySeconds + s - off : d \in 1..WinDays, s \in SampleSeconds}

\* No call has returned at this instant yet.
Unread == [session_date |-> 0, is_blocked_window |-> FALSE, is_active_window |-> FALSE]

InitWindow ==
    /\ now = [d |-> 1, t |-> PostTime]
    /\ CoreAtRest
    /\ \E off \in Offsets : \E u \in Instants(off) :
          win = [utc |-> u, off |-> off, window |-> Unread]
    /\ SweepAtRest /\ MsgAtRest /\ RateAtRest /\ CountAtRest

\* get_session_window(tz_name) is called at the instant win.utc for the zone
\* with offset win.off.
WindowCall ==
    /\ win.window = Unread
    /\ win' = [win EXCEPT !.window = session_window(now_in_tz(win.utc, win.off))]
    /\ UNCHANGED <<countVars, coreVars, sweepVars, msgVars, rateVars>>

\* Time passes to a later sampled instant, of any of the zones.
WindowPass ==
    /\ \E off \in Offsets : \E u \in Instants(off) :
          /\ u > win.utc
          /\ win' = [utc |-> u, off |-> off, window |-> Unread]
    /\ UNCHANGED <<countVars, coreVars, sweepVars, msgVars, rateVars>>

NextWindow == WindowCall \/ WindowPass

SpecWindow == InitWindow /\ [][NextWindow]_vars

\* The local clock face at the read instant.
LocalDate == (win.utc + win.off) \div DaySeconds
LocalHour == ((win.utc + win.off) % DaySeconds) \div 3600
LocalMinute == (((win.utc + win.off) % DaySeconds) % 3600) \div 60
LocalSecond == ((win.utc + win.off) % DaySeconds) % 60

\* 23:54:59 is open, 23:55:00 blocked, 00:04:59 blocked, 00:05:00 open.
BoundarySeconds ==
    win.window # Unread =>
    /\ (LocalHour = 23 /\ LocalMinute = 54 /\ LocalSecond = 59) => win.window.is_active_window
    /\ (LocalHour = 23 /\ LocalMinute = 55 /\ LocalSecond = 0) => win.window.is_blocked_window
    /\ (LocalHour = 0 /\ LocalMinute = 4 /\ LocalSecond = 59) => win.window.is_blocked_window
    /\ (LocalHour = 0 /\ LocalMinute = 5 /\ LocalSecond = 0) => win.window.is_active_window

\* C18: the window is blocked exactly when the local time is before 00:05:00
\* or at or after 23:55:00, session_date is the local calendar date, and
\* is_active_window is the negation of is_blocked_window.
Thm_C18_SessionWindow ==
    win.window # Unread =>
      /\ win.window.is_blocked_window <=>
            \/ LocalHour = 0 /\ LocalMinute < 5
            \/ LocalHour = 23 /\ LocalMinute >= 55
      /\ win.window.session_date = LocalDate
      /\ win.window.is_active_window = ~win.window.is_blocked_window
      /\ BoundarySeconds

\* 23:55:00 sharp in the zone west of UTC, where the UTC date is already the
\* next one: blocked, on the local date.
Wit_C18_SessionWindow ==
    /\ win.off < 0
    /\ LocalHour = 23 /\ LocalMinute = 55 /\ LocalSecond = 0
    /\ win.window.is_blocked_window
    /\ win.window.session_date < win.utc \div DaySeconds

\* ------------------------------------------------ window claims (Spec)

\* The local minute lies in the blocked window, 23:55 up to 00:05.
InBlockedWindow(t) == t < 5 \/ t >= 23 * 60 + 55

\* The transport calls of the scheduler that send a new message.
SendPcs == AwaitPcs \ {"refresh", "lock"}

\* A handler that read a blocked window is rejected and holds no write but
\* upsert_chat's; a scheduler run that read one is at no send.
BlockedHolds ==
    /\ (hnd.pc # "idle" /\ InBlockedWindow(hnd.lt)) =>
          /\ hnd.blocked
          /\ hnd.sess_new = {} /\ hnd.poops = NoRow /\ ~hnd.member
    /\ (sch.pc # "idle" /\ InBlockedWindow(sch.lt)) => sch.pc \notin SendPcs

\* The step that ends a rejected handler, and any step of a scheduler run
\* that read a blocked window short of its commit, leaves the tables alone
\* and counts no send.
BlockedStep ==
    /\ (hnd.pc # "idle" /\ InBlockedWindow(hnd.lt) /\ hnd' # hnd) =>
          UNCHANGED <<sessions, user_states, chat_members, user_streaks,
                      session_messages, command_messages, sent>>
    /\ (sch.pc # "idle" /\ InBlockedWindow(sch.lt) /\ sch' # sch) => sent' = sent

\* C17: in the blocked window /start and the Q1, Q2 and Q3 callbacks are
\* rejected and change no session, per-user state or correlation entry, and
\* the scheduler sends no Q1 post, reminder, statistics or holiday notice.
Thm_C17_BlockedWindow == []BlockedHolds /\ [][BlockedStep]_vars

\* /start at 23:55 of a date whose session is posted, rejected and waiting
\* for its answer to be delivered.
Wit_C17_BlockedWindow ==
    /\ hnd.pc = "answer" /\ hnd.name = "start_cmd" /\ hnd.blocked
    /\ hnd.lt = CloseCutoff
    /\ \E s \in sessions : s.session_date = hnd.ld /\ s.status = "active"
    /\ sent_count(hnd.ld, "Q1") > 0
    /\ sch.pc = "idle"

\* ----------------------------------------------------- SpecRate
\* q1_callbacks, q2_callbacks and q3_callbacks pass check_rate_limit right
\* after the window check, inside the handler's transaction; the dispatcher
\* runs handlers as tasks that interleave at their awaits.  One (chat, user,
\* scope) key is followed: rate_limits is its committed last_action_at, utc
\* the clock of datetime.utcnow() in seconds.

MaxUtc == 5              \* the clock runs from 0 to MaxUtc
MaxTasks == 2            \* handler invocations in flight at once
cooldown_seconds == 2    \* check_rate_limit(..., cooldown_seconds=2)

Tasks == 1..MaxTasks

\* No invocation: the task slot is free; outcome tells how the slot's last
\* transaction ended.
IdleTask == [pc |-> "idle", now |-> 0, read |-> NoStamp, allowed |-> FALSE,
             last_action_at |-> NoStamp, alone |-> FALSE, outcome |-> "none"]

check_rate_limit_strict(task, row, clock) ==
    IF row = NoStamp
    THEN [task EXCEPT !.now = clock, !.read = row, !.allowed = TRUE, !.last_action_at = clock]
    ELSE IF clock - row <= cooldown_seconds
         THEN [task EXCEPT !.now = clock, !.read = row, !.allowed = FALSE,
                           !.last_action_at = row]
         ELSE [task EXCEPT !.now = clock, !.read = row, !.allowed = TRUE,
                           !.last_action_at = clock]

\* check_rate_limit on the row as db.get returns it, at utcnow() = clock:
\* the verdict and the row's last_action_at in the session afterwards.
check_rate_limit(task, row, clock) ==
    IF row = NoStamp
    THEN [task EXCEPT !.now = clock, !.read = row, !.allowed = TRUE, !.last_action_at = clock]
    ELSE IF clock - row < cooldown_seconds
         THEN [task EXCEPT !.now = clock, !.read = row, !.allowed = FALSE,
                           !.last_action_at = row]
         ELSE [task EXCEPT !.now = clock, !.read = row, !.allowed = TRUE,
                           !.last_action_at = clock]

\* Some other invocation has flushed its write of the row and not ended its
\* transaction: the row is locked.
row_locked(i) == \E j \in Tasks \ {i} : rl[j].pc = "answer" /\ rl[j].allowed

InFlight(i) == rl[i].pc # "idle"

InitRate ==
    /\ now = [d |-> 1, t |-> PostTime]
    /\ CoreAtRest
    /\ rate_limits = NoStamp
    /\ rl = [i \in Tasks |-> IdleTask]
    /\ utc = 0
    /\ SweepAtRest /\ MsgAtRest /\ WindowAtRest /\ CountAtRest

\* A second of the clock passes.
RateTick ==
    /\ utc < MaxUtc
    /\ utc' = utc + 1
    /\ UNCHANGED <<rate_limits, rl>>
    /\ UNCHANGED <<countVars, coreVars, sweepVars, msgVars, windowVars>>

\* A handler is called and runs to its first await after check_rate_limit:
\* a denied one to its answer, an allowed one through the flush of its write
\* (db.flush() in q1_callbacks, the autoflush of the next query in the
\* others), which waits while another transaction holds the row.
RateCall ==
    /\ \E i \in Tasks :
          /\ rl[i].pc = "idle"
          /\ LET others == \E j \in Tasks \ {i} : InFlight(j)
                 task == check_rate_limit([IdleTask EXCEPT !.alone = ~others],
                                          rate_limits, utc)
                 pc == IF ~task.allowed THEN "denied"
                       ELSE IF row_locked(i) THEN "flush" ELSE "answer"
             IN rl' = [j \in Tasks |->
                          IF j = i THEN [task EXCEPT !.pc = pc]
                          ELSE IF InFlight(j) THEN [rl[j] EXCEPT !.alone = FALSE]
                          ELSE rl[j]]
    /\ UNCHANGED <<rate_limits, utc>>
    /\ UNCHANGED <<countVars, coreVars, sweepVars, msgVars, windowVars>>

\* The transaction that held the row has ended and the waiting flush goes
\* through: an UPDATE writes over the row as it now is, an INSERT of a row
\* that meanwhile exists raises and the transaction is rolled back.
RateFlush ==
    /\ \E i \in Tasks :
          /\ rl[i].pc = "flush"
          /\ ~row_locked(i)
          /\ IF rl[i].read = NoStamp /\ rate_limits # NoStamp
             THEN rl' = [rl EXCEPT ![i] = [IdleTask EXCEPT !.outcome = "rollback"]]
             ELSE rl' = [rl EXCEPT ![i].pc = "answer"]
    /\ UNCHANGED <<rate_limits, utc>>
    /\ UNCHANGED <<countVars, coreVars, sweepVars, msgVars, windowVars>>

\* The handler leaves its with-block: session.commit().
RateCommit ==
    /\ \E i \in Tasks :
          /\ rl[i].pc \in {"answer", "denied"}
          /\ rate_limits' = IF rl[i].allowed THEN rl[i].last_action_at ELSE rate_limits
          /\ rl' = [rl EXCEPT ![i] = [IdleTask EXCEPT !.outcome = "commit"]]
    /\ utc' = utc
    /\ UNCHANGED <<countVars, coreVars, sweepVars, msgVars, windowVars>>

\* An await of the handler raises, or the wait for the row is given up:
\* session.rollback().
RateRollback ==
    /\ \E i \in Tasks :
          /\ InFlight(i)
          /\ rl' = [rl EXCEPT ![i] = [IdleTask EXCEPT !.outcome = "rollback"]]
    /\ UNCHANGED <<rate_limits, utc>>
    /\ UNCHANGED <<countVars, coreVars, sweepVars, msgVars, windowVars>>

NextRate ==
    \/ RateTick
    \/ RateCall
    \/ RateFlush
    \/ RateCommit
    \/ RateRollback

SpecRate == InitRate /\ [][NextRate]_vars

\* -------------------------------------------------- rate claims (SpecRate)

Apart(i, j) == IF rl[i].now >= rl[j].now THEN rl[i].now - rl[j].now ELSE rl[j].now - rl[i].now

\* C19: of two invocations for the key that interleave, each in its own
\* transaction, less than the cooldown apart, at most one is allowed.
Cex_C19_AtomicCheckAndSet ==
    \A i \in Tasks : \A j \in Tasks \ {i} :
        (InFlight(i) /\ InFlight(j) /\ Apart(i, j) < cooldown_seconds) => ~(rl[i].allowed /\ rl[j].allowed)

\* The call of task i in this step, made while no other transaction is open.
SequentialCall(i) == rl[i].pc = "idle" /\ rl'[i].pc # "idle" /\ rl'[i].alone

\* The commit of task i in this step, of a call no other invocation
\* overlapped.
SequentialCommit(i) ==
    InFlight(i) /\ rl[i].alone /\ rl'[i].pc = "idle" /\ rl'[i].outcome = "commit"

RateStep ==
    \A i \in Tasks :
        /\ SequentialCall(i) =>
              /\ rate_limits = NoStamp => rl'[i].allowed
              /\ rate_limits # NoStamp => (rl'[i].allowed <=> utc - rate_limits >= cooldown_seconds)
              /\ rl'[i].allowed => rl'[i].last_action_at = utc
              /\ ~rl'[i].allowed => rl'[i].last_action_at = rate_limits
              /\ rl'[i].pc # "flush"
        /\ SequentialCommit(i) =>
              /\ rl[i].allowed => rate_limits' = rl[i].now
              /\ ~rl[i].allowed => rate_limits' = rate_limits

\* C20: for sequential calls on one key the first call is allowed and stamps
\* now, a later call is allowed iff now - last_action_at >= cooldown, an
\* allowed call sets last_action_at to now and a denied call leaves it.
Thm_C20_SequentialCalls == [][RateStep]_vars

\* A call alone on the key exactly cooldown_seconds after the committed
\* stamp of an earlier allowed call: allowed, and waiting for its answer.
Wit_C20_SequentialCalls ==
    \E i \in Tasks :
        /\ rl[i].pc = "answer" /\ rl[i].alone
        /\ rl[i].read # NoStamp
        /\ rl[i].now - rl[i].read = cooldown_seconds
        /\ rl[i].last_action_at = rl[i].now

\* ------------------------------------------------ recompute claims (Spec)

\* This step starts a tick that runs _recalculate_streaks_from_history.
RecalcStep == sch.pc = "idle" /\ sch'.pc # "idle" /\ sch'.recalc

\* The minutes of a day at which should_recalc_now can hold.
RecalcMinutes == {t \in 0..(24 * 60 - 1) : should_recalc_now([d |-> 1, t |-> t], NoDate)}

\* Within one process the marker only moves forward, and only with a
\* recompute; a recompute is for a date later than the marker's.
RecalcOncePerDate ==
    /\ RecalcStep =>
          /\ hour(sch'.lt) = 0 /\ minute(sch'.lt) >= 6 /\ minute(sch'.lt) <= 10
          /\ streak_recalc_date < sch'.ld
          /\ streak_recalc_date' = sch'.ld
    /\ (faults' = faults /\ ~RecalcStep) => streak_recalc_date' = streak_recalc_date

\* C29: recompute-from-history runs at most once per local date within one
\* process, and only in a tick whose local time is between 00:06 and 00:10.
Thm_C29_RecalcOncePerDay ==
    /\ [](RecalcMinutes = 6..10)
    /\ [][RecalcOncePerDate]_vars

\* A second tick at 00:06 of a date whose recompute has run in this process:
\* it is under way with members in the chat and wrote no streak row.
Wit_C29_RecalcOncePerDay ==
    /\ sch.pc # "idle" /\ sch.lt = 6 /\ sch.ld = streak_recalc_date
    /\ ~sch.recalc
    /\ chat_members # {}
    /\ faults = 0

\* ------------------------------------------- transaction claims (Spec)

\* _process_chat is inside its `with db_session(...)` block: the session's
\* transaction is neither committed nor rolled back.
OpenTransaction == sch.pc # "idle"

\* A send or an edit of the scheduler is in flight.
TransportInFlight == sch.pc \in AwaitPcs

\* C26: no database transaction is open while a transport call of the
\* scheduler's per-chat pipeline is in flight.
Cex_C26_NoTransactionAcrossCalls == TransportInFlight => ~OpenTransaction


\* ------------------------------------------- reminder claims (SpecNotify)

\* A tick read 23:30 with notifications on, found the date's Q1 posted and
\* no late reminder recorded, sent none, and is about to commit: the
\* reminder's text was empty.
EmptyLateReminderTick ==
    /\ sch.pc = "commit"
    /\ sch.notif /\ hour(sch.lt) = 23 /\ minute(sch.lt) = 30
    /\ sch.cur # 0
    /\ get_session_message_id(sch.ws, sch.cur, "Q1") # NoMid
    /\ <<"late_reminder", sch.ld>> \notin DOMAIN command_messages
    /\ sent_count(sch.ld, "late_reminder") = 0

\* C22: a reminder whose content is empty at its scheduled time is not sent
\* and the (chat, date, kind) is recorded as handled.
Cex_C22_EmptyReminderHandled ==
    EmptyLateReminderTick => get_command_message_id(sch.ws, "late_reminder", sch.ld) # NoMid

\* ------------------------------------------------- order of steps in a tick

\* The step of _process_chat a run stands at, numbered in the order of the
\* source: refresh of the recalculated day, catch-up close, close of the
\* current day, Q1 post, late reminder, periodic stats, holiday notice, commit.
StepRank(st) ==
    CASE st.pc = "refresh" -> 0
      [] st.pc = "lock" -> IF st.after_lock = "loop" THEN 1 ELSE 2
      [] st.pc \in {"recap_announce", "Q1", "Q2", "Q3"} -> 3
      [] st.pc = "late_reminder" -> 4
      [] st.pc \in {"weekly_stats", "monthly_stats", "yearly_stats"} -> 5
      [] st.pc = "holiday_notice" -> 6
      [] OTHER -> 7

\* Sessions of earlier dates the run selected as active and has not closed.
Backlog(st) ==
    { s \in view_sessions(st.ws) :
        s.session_id \in st.seen /\ s.session_date < st.ld /\ s.status # "closed" }

StepOrder ==
    (sch.pc # "idle" /\ sch'.pc # "idle") =>
        /\ StepRank(sch') >= StepRank(sch)
        /\ StepRank(sch) >= 3 => sch'.ws.closed = sch.ws.closed

\* C27: within one run of _process_chat the steps go in the order of the
\* source: a run never moves back to an earlier step, it closes no session
\* once it is at the Q1 post or later, and it reaches the Q1 post only with
\* every past active session it selected closed.
Thm_C27_StepOrder ==
    /\ []((sch.pc # "idle" /\ StepRank(sch) >= 3) => Backlog(sch) = {})
    /\ [][StepOrder]_vars

\* A run that closed yesterday's session, posted Q1 and stands at the holiday
\* notice.
Wit_C27_StepOrder ==
    /\ sch.pc = "holiday_notice"
    /\ sch.ws.closed # {}
    /\ <<sch.cur, "Q1">> \in DOMAIN sch.ws.smsg

\* --------------------------------------------------- one pipeline at a time

\* The runs of _tick that are executing, and the chats whose _process_chat
\* is in flight in the run the model follows.
RunningTicks == sweep.instances

InPipeline == IF sweep.pc \in {"idle", "throttle"} THEN {} ELSE {sweep.cur}

\* Inside a run the next chat is entered only from the throttle sleep that
\* follows the previous chat, and it is the next one of the list read at the
\* start; a run starts only when none is executing.
OneAfterAnother ==
    /\ (sweep.pc # "idle" /\ sweep'.pc # "idle" /\ sweep'.i # sweep.i) =>
          /\ sweep.pc = "throttle"
          /\ sweep'.i = sweep.i + 1
          /\ sweep'.chats = sweep.chats
    /\ (sweep.pc # "idle" /\ sweep'.pc # "idle") => sweep'.instances = sweep.instances
    /\ (sweep'.instances > sweep.instances) => sweep.pc = "idle"

\* C28: at most one run of _tick is executing and at most one chat's
\* _process_chat is in flight; the chats of a run are entered one after
\* another, and an interval that comes due during a run starts no second run.
Thm_C28_OnePipeline ==
    /\ [](RunningTicks <= 1 /\ Cardinality(InPipeline) <= 1)
    /\ [](sweep.pc # "idle" => RunningTicks = 1)
    /\ [][OneAfterAnother]_vars

\* The interval came due during a run, no second run was started, and the
\* run is inside the pipeline of its second chat.
Wit_C28_OnePipeline ==
    /\ sweep.skipped
    /\ sweep.i = 2
    /\ sweep.pc \in {"send", "edit"}
    /\ RunningTicks = 1

\* ------------------------------------------------------ /start and the day
\* The chat on Sunday 9 February with the commands of its members next to
\* the scheduler: /start, the reminder button of Q1, /help, /stats and the
\* notifications switch of the help menu.  Q1 messages are not deleted here,
\* so a stored Q1 entry stays valid, and no transport call fails.

\* The handler's own view of the session messages.
HndWrites(hd) == [NoWrites EXCEPT !.sess_new = hd.sess_new, !.smsg = hd.smsg]

\* ensure_q2_q3_exist: Q2 (and then Q3) is edited when its entry is stored
\* and sent when it is not.
ensure_exists(hd, kind) ==
    IF get_session_message_id(HndWrites(hd), hd.sid, kind) # NoMid
    THEN [hd EXCEPT !.pc = "edit_" \o kind]
    ELSE [hd EXCEPT !.pc = kind]

\* start_cmd up to its first transport call: the reply under the stored Q1,
\* or a new Q1 when none is stored.
start_cmd(clock, u) ==
    LET ins == get_or_create_session(sessions, clock.d)
        sess == session_for_date(sessions \cup ins, clock.d)
        base == [IdleHnd EXCEPT !.name = "start_cmd", !.user = u,
                                !.ld = clock.d, !.lt = clock.t,
                                !.enable = ~is_enabled, !.sess_new = ins,
                                !.sid = sess.session_id]
    IN IF get_session_message_id(NoWrites, sess.session_id, "Q1") # NoMid
       THEN [base EXCEPT !.pc = "reply"]
       ELSE [base EXCEPT !.pc = "Q1"]

StartPcs == {"reply", "Q1", "Q2", "Q3", "edit_Q2", "edit_Q3"}

\* start_cmd after the transport call it stood at returned message id mid.
start_resume(hd, mid) ==
    CASE hd.pc = "reply" -> ensure_exists(hd, "Q2")
      [] hd.pc = "Q1" ->
            ensure_exists([hd EXCEPT !.smsg = Put(@, <<hd.sid, "Q1">>, mid)], "Q2")
      [] hd.pc = "Q2" ->
            ensure_exists([hd EXCEPT !.smsg = Put(@, <<hd.sid, "Q2">>, AnyMid)], "Q3")
      [] hd.pc = "edit_Q2" -> ensure_exists(hd, "Q3")
      [] hd.pc = "Q3" ->
            [hd EXCEPT !.smsg = Put(@, <<hd.sid, "Q3">>, AnyMid), !.pc = "answer"]
      [] hd.pc = "edit_Q3" -> [hd EXCEPT !.pc = "answer"]

\* /start from user u while the window is open.
StartCmd ==
    /\ hnd.pc = "idle"
    /\ sch.pc # "commit"
    /\ ~window_rejects(get_session_window(now))
    /\ \E u \in Users : hnd' = start_cmd(now, u)
    /\ UNCHANGED auxVars
    /\ UNCHANGED <<now, epoch, is_enabled, notifications_enabled, sessions, session_messages,
                   command_messages, user_states, chat_members, user_streaks,
                   streak_recalc_date, sent, sch, h, faults>>

\* The transport call of start_cmd returns.
StartSent ==
    /\ hnd.pc \in StartPcs
    /\ sch.pc # "commit"
    /\ IF hnd.pc = "Q1"
       THEN LET n == sent_count(hnd.ld, "Q1") + 1
            IN /\ n <= MaxSends
               /\ sent' = Put(sent, <<hnd.ld, "Q1">>, n)
               /\ hnd' = start_resume(hnd, n)
       ELSE /\ sent' = sent
            /\ hnd' = start_resume(hnd, AnyMid)
    /\ UNCHANGED auxVars
    /\ UNCHANGED <<now, epoch, is_enabled, notifications_enabled, sessions, session_messages,
                   command_messages, user_states, chat_members, user_streaks,
                   streak_recalc_date, sch, h, faults>>

\* st.remind_22 = not bool(st.remind_22) on the row of (sid, uid), created
\* with poops_n = 0 when missing.
toggle_remind(states, sid, uid) ==
    LET rows == with_poops(states, sid, uid, poops_of(states, sid, uid))
    IN [rows EXCEPT ![<<sid, uid>>].remind_22 = ~@]

\* The reminder button under the date's Q1 pressed by user u: q1_callbacks
\* with q1:remind, as a whole.  From 22:00 on the press is refused.
RemindPress ==
    /\ hnd.pc = "idle"
    /\ sch.pc = "idle"
    /\ ~window_rejects(get_session_window(now))
    /\ \E u \in Users, s \in sessions :
         /\ s.session_date = now.d
         /\ s.status = "active"
         /\ get_session_message_id(NoWrites, s.session_id, "Q1") # NoMid
         /\ IF hour(now.t) >= 22
            THEN UNCHANGED <<user_states, chat_members, user_streaks>>
            ELSE /\ user_states' = toggle_remind(user_states, s.session_id, u)
                 /\ chat_members' = chat_members \cup {u}
                 /\ user_streaks' = IF u \in DOMAIN user_streaks THEN user_streaks
                                    ELSE Put(user_streaks, u, FreshStreak)
    /\ is_enabled' = TRUE
    /\ UNCHANGED auxVars
    /\ UNCHANGED <<now, epoch, notifications_enabled, sessions, session_messages,
                   command_messages, streak_recalc_date, sent, sch, hnd, h, faults>>

MenuCommands == {"help", "stats"}

\* help_cmd or stats_cmd as a whole: the menu stored for the date is edited
\* and pointed at, or a new one is sent and stored.
MenuCmd ==
    /\ hnd.pc = "idle"
    /\ sch.pc = "idle"
    /\ \E command \in MenuCommands :
         IF get_command_message_id(NoWrites, command, now.d) # NoMid
         THEN UNCHANGED <<sent, command_messages>>
         ELSE /\ sent' = Put(sent, <<now.d, command>>, 1)
              /\ command_messages' = Put(command_messages, <<command, now.d>>, 1)
    /\ is_enabled' = TRUE
    /\ UNCHANGED auxVars
    /\ UNCHANGED <<now, epoch, notifications_enabled, sessions, session_messages,
                   user_states, chat_members, user_streaks, streak_recalc_date,
                   sch, hnd, h, faults>>

\* set_chat_notifications_enabled(db, chat_id, enabled) from the help menu.
NotificationsSwitch ==
    /\ hnd.pc = "idle"
    /\ sch.pc = "idle"
    /\ get_command_message_id(NoWrites, "help", now.d) # NoMid
    /\ notifications_enabled' = ~notifications_enabled
    /\ is_enabled' = TRUE
    /\ UNCHANGED auxVars
    /\ UNCHANGED <<now, epoch, sessions, session_messages, command_messages, user_states,
                   chat_members, user_streaks, streak_recalc_date, sent, sch, hnd, h, faults>>

InitStart == InitIn({"feb9"})

NextStart ==
    \/ Advance
    \/ TickStart
    \/ TransportOk
    \/ SchCommit
    \/ StartCmd
    \/ StartSent
    \/ HCommit
    \/ RemindPress
    \/ MenuCmd
    \/ NotificationsSwitch

SpecStart == InitStart /\ [][NextStart]_vars

\* C21: no date has more than one Q1 message sent (no Q1 message is deleted
\* and no transaction is lost in these runs, so a stored Q1 entry is valid),
\* and a stored Q1 entry names a message that was sent.
Cex_C21_SingleQ1 ==
    \A s \in sessions :
        /\ sent_count(s.session_date, "Q1") <= 1
        /\ get_session_message_id(NoWrites, s.session_id, "Q1") \in
              {NoMid} \cup 1..sent_count(s.session_date, "Q1")

\* The clock condition under which _process_chat sends each kind; for the
\* holiday notice, which follows the stored Q1, Q2 and Q3, the minute of the
\* Q1 auto-post.
TimeGate(kind, t) ==
    CASE kind \in {"recap_announce", "Q1", "Q2", "Q3"} ->
            hour(t) = hour(PostTime) /\ minute(t) = minute(PostTime)
      [] kind = "late_reminder" -> hour(t) = 23 /\ minute(t) = 30
      [] kind \in {"weekly_stats", "monthly_stats", "yearly_stats"} ->
            hour(t) = 23 /\ minute(t) = 0
      [] kind = "holiday_notice" ->
            hour(t) = hour(PostTime) /\ minute(t) = minute(PostTime)

\* C23: a tick sends a scheduled kind only at the kind's minute: Q1 with its
\* companions at the post time, the late reminder at 23:30, the periodic
\* stats at 23:00, the holiday notice at the post time.
Cex_C23_TimeGated == sch.pc \in SendPcs => TimeGate(sch.pc, sch.lt)

\* build_reminder_22_text(db, session_id) is not None: some row of the
\* session has remind_22 set.
build_reminder_22_text(sid) ==
    \E k \in DOMAIN user_states : k[1] = sid /\ user_states[k].remind_22

\* A tick that read 22:00 with notifications on, the date's Q1 stored and a
\* member who switched the reminder on, at the end of its run.
Reminder22Due ==
    /\ sch.pc = "commit"
    /\ sch.notif
    /\ hour(sch.lt) = 22 /\ minute(sch.lt) = 0
    /\ sch.cur # 0
    /\ session_by_id(view_sessions(sch.ws), sch.cur).status = "active"
    /\ get_session_message_id(sch.ws, sch.cur, "Q1") # NoMid
    /\ build_reminder_22_text(sch.cur)

\* C24: a tick at 22:00 with notifications on, the date's Q1 stored and the
\* reminder switched on by a member ends with the date's 22:00 reminder sent
\* and recorded.
Cex_C24_Reminder22Sent ==
    Reminder22Due =>
        /\ get_command_message_id(sch.ws, "reminder22", sch.ld) # NoMid
        /\ sent_count(sch.ld, "reminder22") = 1

\* A run of _process_chat that read notifications_enabled = False.
Muted == sch.pc # "idle" /\ ~sch.notif

\* A muted run stands at no scheduled send; at the end of a run from the
\* close cutoff on the date's session is closed with every selected earlier
\* one, and a run that closed a session wrote every streak row.
MutedRun ==
    Muted =>
        /\ sch.pc \notin SendPcs
        /\ (sch.pc = "commit" /\ sch.lt >= CloseCutoff) =>
              /\ session_by_id(view_sessions(sch.ws), sch.cur).status = "closed"
              /\ Backlog(sch) = {}
        /\ (sch.pc = "commit" /\ sch.ws.closed # {}) =>
              DOMAIN sch.ws.streaks = DOMAIN user_streaks

\* A run reads the switch when it starts, and a muted run changes no count
\* of sent messages.
MutedStep ==
    /\ (sch.pc = "idle" /\ sch'.pc # "idle") => sch'.notif = notifications_enabled
    /\ (Muted /\ hnd' = hnd) => sent' = sent

\* With the switch off /start, /help and /stats are taken as before.
CommandsServed ==
    (~notifications_enabled /\ hnd.pc = "idle" /\ sch.pc = "idle"
        /\ ~window_rejects(get_session_window(now)))
    => (ENABLED StartCmd /\ ENABLED MenuCmd)

\* C25: a run that read notifications_enabled = False sends no Q1, late
\* reminder, periodic stats or holiday notice, still closes the sessions and
\* writes the streaks, and /start, /help and /stats are served with the
\* switch off.
Thm_C25_Muted ==
    /\ [](MutedRun /\ CommandsServed)
    /\ [][MutedStep]_vars

\* With the switch off: /start has posted the date's only Q1 and /stats its
\* menu, no holiday notice went out on 9 February, and a muted run at the
\* close cutoff has closed the session and reset the member's streak row.
Wit_C25_Muted ==
    /\ Muted /\ sch.pc = "commit" /\ sch.lt >= CloseCutoff
    /\ sch.cur \in sch.ws.closed
    /\ chat_members # {}
    /\ get_session_message_id(sch.ws, sch.cur, "Q3") # NoMid
    /\ sent_count(sch.ld, "Q1") = 1
    /\ sent_count(sch.ld, "stats") = 1
    /\ sent_count(sch.ld, "holiday_notice") = 0
    /\ sent_count(sch.ld, "weekly_stats") = 0
    /\ sent_count(sch.ld, "late_reminder") = 0

\* ------------------------------------------- sent messages and their entries

\* The Q1 entry of date d is committed.
Q1Recorded(d) ==
    \E s \in sessions :
        s.session_date = d /\ <<s.session_id, "Q1">> \in DOMAIN session_messages

\* C31: between the scheduler's runs every date with a Q1 message delivered
\* has its Q1 entry committed, and every date with a late reminder, a stats
\* message or a holiday notice delivered has that entry committed.
Cex_C31_SentIsRecorded ==
    sch.pc = "idle" =>
        \A d \in Days :
            /\ sent_count(d, "Q1") > 0 => Q1Recorded(d)
            /\ \A kind \in CountedKinds \ {"Q1"} :
                   sent_count(d, kind) > 0 => <<kind, d>> \in DOMAIN command_messages

\* ---------------------------------------- recompute and close in one tick

\* The close of the session of date h.today came right after the recompute
\* for the next date: the tick between 00:06 and 00:10 that finds the
\* previous day's session still active.
RecalcThenClose == h.op = "close" /\ h.after_recalc = h.today + 1

\* C33: after the recompute for date T + 1 followed by the close of the
\* still-active session of date T, every member active on T has
\* current_streak = the length of the run of consecutive active dates ending
\* at T and last_poop_date = T.
Cex_C33_RecalcThenClose ==
    (RecalcThenClose /\ NoDuplicateDates) =>
        \A u \in chat_members :
            LET A == ActiveDates(u, h.today + 1)
            IN h.today \in A =>
                  user_streaks[u] = [current_streak |-> RunEndingAt(A, h.today),
                                     last_poop_date |-> h.today]

\* ------------------------------------------------ one streak update a session

\* The dates for which the run has applied _close_session's streak update,
\* in the order of application, name each session the run closes once, and
\* every such session is committed as active.
ClosesOnce ==
    sch.pc # "idle" =>
        /\ \A i, j \in 1..Len(sch.closed_log) :
               sch.closed_log[i] = sch.closed_log[j] => i = j
        /\ { sch.closed_log[i] : i \in 1..Len(sch.closed_log) } =
               { session_by_id(view_sessions(sch.ws), sid).session_date : sid \in sch.ws.closed }
        /\ \A s \in sessions : s.session_id \in sch.ws.closed => s.status = "active"

\* A step that changes a stored streak row is the commit of a run that
\* recomputed or closed a session, and the sessions it closed are committed
\* as closed by the same step.
StreakWrite ==
    (\E u \in DOMAIN user_streaks : user_streaks'[u] # user_streaks[u]) =>
        /\ sch.pc = "commit"
        /\ sch.ws.closed # {} \/ sch.recalc
        /\ \A s \in sessions' : s.session_id \in sch.ws.closed => s.status = "closed"

\* C34: _close_session's streak update is applied once per session: a run
\* applies it only to sessions that are committed as active, once each, also
\* when the catch-up loop and the cutoff branch meet the same session, and
\* the commit that stores the update stores the session as closed.
Thm_C34_UpdateOnce ==
    /\ []ClosesOnce
    /\ [][StreakWrite]_vars

\* A run at the close cutoff whose catch-up loop closed the date's session,
\* with a member's streak raised, at the end of its cutoff branch.
Wit_C34_UpdateOnce ==
    /\ sch.pc = "commit" /\ sch.lt >= CloseCutoff
    /\ sch.ws.closed = {sch.cur}
    /\ sch.closed_log = <<sch.ld>>
    /\ \E u \in chat_members :
          /\ poops_of(user_states, sch.cur, u) > 0
          /\ view_streaks(sch.ws)[u].current_streak = user_streaks[u].current_streak + 1



\* ------------------------------------------------------- closing and failure

\* The tables a run of _process_chat writes.
SchedulerTables == <<sessions, user_streaks, session_messages, command_messages>>

\* A run that ends without its commit (an exception of a transport call, a
\* restart) leaves every table as committed; a step that stores a session as
\* closed is the commit of the run that closed it and stores every streak
\* row as that run wrote it; a step that changes a stored streak row stores
\* the run's closed sessions, unless the run only recomputed.
CloseAtomic ==
    /\ (sch.pc \in AwaitPcs /\ sch'.pc = "idle") => UNCHANGED SchedulerTables
    /\ (\E s \in sessions : s.status = "active" /\ s \notin sessions') =>
          /\ sch.pc = "commit"
          /\ { s.session_id : s \in sessions \ sessions' } \subseteq sch.ws.closed
          /\ user_streaks' = view_streaks(sch.ws)
    /\ (\E u \in DOMAIN user_streaks : user_streaks'[u] # user_streaks[u]) =>
          /\ sch.pc = "commit"
          /\ ~sch.recalc => sch.ws.closed # {}
          /\ \A sid \in sch.ws.closed : session_by_id(sessions', sid).status = "closed"

\* C35: closing is atomic under failure: a run in which a step raises after
\* _close_session has started commits nothing, so the session stays active
\* and the streak rows stay as they were; sessions become closed and streak
\* rows are updated only together, in the commit of the closing run.
Thm_C35_CloseAtomic == [][CloseAtomic]_vars

\* A run has closed a session with a member's streak raised and awaits the
\* lock edit, and a failure may still come.
Wit_C35_CloseAtomic ==
    /\ sch.pc = "lock"
    /\ sch.ws.closed # {}
    /\ faults < MaxFaults
    /\ \E s \in sessions : s.session_id \in sch.ws.closed /\ s.status = "active"
    /\ \E u \in chat_members : view_streaks(sch.ws)[u] # user_streaks[u]

\* ------------------------------------------------ counters of closed sessions

\* C32: with no failure in the run, every member with poops_n > 0 in a
\* session committed as closed has a streak row whose last_poop_date is that
\* session's date or a later one: the close counted the final poops_n.
Cex_C32_FinalCount ==
    faults = 0 =>
        \A s \in sessions : \A u \in DOMAIN user_streaks :
            (s.status = "closed" /\ poops_of(user_states, s.session_id, u) > 0) =>
                user_streaks[u].last_poop_date >= s.session_date

\* ------------------------------------------------ the recompute marker

\* A run of _process_chat that recomputed the streaks leaves an await with an
\* exception: db_session rolls the transaction back, the recompute with it.
RecomputeRolledBack ==
    /\ sch.recalc
    /\ sch.pc \in AwaitPcs
    /\ sch'.pc = "idle"
    /\ view_streaks(sch.ws) # user_streaks
    /\ user_streaks' = user_streaks

\* Claim C36: whenever the marker _streak_recalc_date of the chat equals a
\* local date, the streak rows recomputed for that date have been committed: a
\* tick whose transaction is rolled back after the recompute does not leave
\* the marker at the date of the run.
MarkerFollowsCommit == RecomputeRolledBack => streak_recalc_date' # sch.ld

Cex_C36_MarkerCommitted == [][MarkerFollowsCommit]_vars

\* ------------------------------------------------ the streak shown in Q1

render_q1_streak_always_next(streaks, states, sid, uid, session_date) ==
    LET poops == poops_of(states, sid, uid)
    IN IF poops > 0 /\ uid \in DOMAIN streaks
       THEN streaks[uid].current_streak + 1
       ELSE IF uid \in DOMAIN streaks THEN streaks[uid].current_streak ELSE 0

\* render_q1, the number after "стрик" on a member's line: the stored
\* current_streak, or for poops > 0 the value "as after the close".
render_q1_streak(streaks, states, sid, uid, session_date) ==
    LET poops == poops_of(states, sid, uid)
        streak_val == IF uid \in DOMAIN streaks THEN streaks[uid].current_streak ELSE 0
    IN IF poops > 0
       THEN IF uid \in DOMAIN streaks /\ streaks[uid].last_poop_date = session_date - 1
            THEN streaks[uid].current_streak + 1
            ELSE 1
       ELSE streak_val

\* A step of _close_session on the session h'.sid of date h'.today.
ClosesSession == h'.op = "close" /\ sessions' # sessions

ProjectionIsClose ==
    ClosesSession =>
        \A u \in chat_members :
            LET shown == render_q1_streak(user_streaks, user_states, h'.sid, u, h'.today)
            IN IF poops_of(user_states, h'.sid, u) > 0
               THEN user_streaks'[u].current_streak = shown
               ELSE shown = user_streaks[u].current_streak

MaxPressers == 2     \* users who press the buttons of the Q1 message
Pressers == 1..MaxPressers
LegacyPoops == {NoRow, 0, 2}   \* rows that predate the poop_events table

\* The session whose Q1 message carries the buttons.
Q1Session == 1

PoopEvent(sid, uid, n) == [session_id |-> sid, user_id |-> uid, event_n |-> n]

\* {int(e.event_n) for e in events} of one (session, user).
event_numbers(events, sid, uid) ==
    { e.event_n : e \in { r \in events : r.session_id = sid /\ r.user_id = uid } }

\* pg_insert(PoopEvent).values(...).on_conflict_do_nothing(...)
create_event(events, sid, uid, n) == events \cup {PoopEvent(sid, uid, n)}

\* delete(PoopEvent).where(session_id, user_id, event_n)
delete_event(events, sid, uid, n) == events \ {PoopEvent(sid, uid, n)}

max(a, b) == IF a >= b THEN a ELSE b

reconcile_events_count_tail_only(events, sid, uid, poops_n) ==
    LET target == max(0, poops_n)
    IN { r \in events : ~(r.session_id = sid /\ r.user_id = uid /\ r.event_n > target) }

\* reconcile_events_count: the events numbered above poops_n are deleted,
\* the missing ones of 1..poops_n are created.
reconcile_events_count(events, sid, uid, poops_n) ==
    LET target == max(0, poops_n)
        existing == event_numbers(events, sid, uid)
        kept == { r \in events :
                    ~(r.session_id = sid /\ r.user_id = uid /\ r.event_n > target) }
    IN kept \cup { PoopEvent(sid, uid, n) : n \in (1..target) \ existing }

\* One chat whose session of the date is active with its Q1 posted, on the
\* day the poop_events table is added: the counters of the day exist, no
\* event does.
InitCount ==
    /\ now = [d |-> 1, t |-> PostTime]
    /\ epoch = "plain"
    /\ is_enabled = TRUE
    /\ notifications_enabled = TRUE
    /\ sessions = {[session_id |-> Q1Session, session_date |-> 1, status |-> "active"]}
    /\ session_messages = [k \in {<<Q1Session, "Q1">>} |-> 1]
    /\ command_messages = EmptyFn
    /\ \E p \in [Pressers -> LegacyPoops] :
         /\ user_states = [k \in { <<Q1Session, u>> : u \in { v \in Pressers : p[v] # NoRow } }
                              |-> NewState(p[k[2]])]
         /\ chat_members = { v \in Pressers : p[v] # NoRow }
         /\ user_streaks = [u \in { v \in Pressers : p[v] # NoRow } |-> FreshStreak]
    /\ streak_recalc_date = NoDate
    /\ sent = [k \in {<<1, "Q1">>} |-> 1]
    /\ faults = 0
    /\ sch = IdleSch
    /\ hnd = IdleHnd
    /\ h = NoHarness
    /\ SweepAtRest /\ MsgAtRest /\ WindowAtRest /\ RateAtRest
    /\ poop_events = {}
    /\ cb = NoCallback

\* q1_callbacks for the press of user u, from apply_plus / apply_minus /
\* toggle_remind to the await of cb.answer.  check_rate_limit has let the
\* press through and its row, flushed before the first await, keeps a second
\* press of the user waiting until this transaction ends.
CbApply ==
    /\ cb.pc = "idle"
    /\ \E u \in Pressers, data \in {"q1:plus", "q1:minus", "q1:remind"} :
         LET before == poops_of(user_states, Q1Session, u)
             ok == CASE data = "q1:plus" -> before < PoopsCap
                     [] data = "q1:minus" -> apply_minus(Q1Session, u) # NoRow
                     [] OTHER -> hour(now.t) < 22
             states == CASE data = "q1:plus" ->
                              with_poops(user_states, Q1Session, u, apply_plus(Q1Session, u))
                        [] data = "q1:minus" ->
                              IF ok THEN with_poops(user_states, Q1Session, u,
                                                    apply_minus(Q1Session, u))
                              ELSE user_states
                        [] OTHER ->
                              IF ok THEN toggle_remind(user_states, Q1Session, u)
                              ELSE user_states
             events == CASE data = "q1:plus" /\ ok ->
                              create_event(poop_events, Q1Session, u, apply_plus(Q1Session, u))
                        [] data = "q1:minus" /\ ok ->
                              delete_event(poop_events, Q1Session, u, before)
                        [] OTHER -> poop_events
         IN cb' = [pc |-> "answer", data |-> data, user |-> u, ok |-> ok,
                   states |-> states, events |-> events]
    /\ poop_events' = poop_events
    /\ UNCHANGED <<coreVars, sweepVars, msgVars, windowVars, rateVars>>

\* The rest of q1_callbacks: reconcile_events_count on the acting user's
\* counter as the session holds it, the refresh of Q1, and the commit at
\* the end of the with-block.  ensure_chat_member has added the member and
\* the streak row of a user who pressed plus or the reminder.
CbCommit ==
    /\ cb.pc = "answer"
    /\ LET joins == cb.data = "q1:plus" \/ (cb.data = "q1:remind" /\ cb.ok)
       IN /\ poop_events' = reconcile_events_count(cb.events, Q1Session, cb.user,
                                                   poops_of(cb.states, Q1Session, cb.user))
          /\ user_states' = cb.states
          /\ chat_members' = IF joins THEN chat_members \cup {cb.user} ELSE chat_members
          /\ user_streaks' = IF joins /\ cb.user \notin DOMAIN user_streaks
                             THEN Put(user_streaks, cb.user, FreshStreak)
                             ELSE user_streaks
    /\ cb' = [cb EXCEPT !.pc = "idle", !.states = EmptyFn, !.events = {}]
    /\ UNCHANGED <<now, epoch, is_enabled, notifications_enabled, sessions, session_messages,
                   command_messages, streak_recalc_date, sent, faults, sch, hnd, h>>
    /\ UNCHANGED <<sweepVars, msgVars, windowVars, rateVars>>

\* An await of the callback raises: session.rollback().
CbRaise ==
    /\ cb.pc = "answer"
    /\ cb' = NoCallback
    /\ poop_events' = poop_events
    /\ UNCHANGED <<coreVars, sweepVars, msgVars, windowVars, rateVars>>

NextCount ==
    \/ CbApply
    \/ CbCommit
    \/ CbRaise

SpecCount == InitCount /\ [][NextCount]_vars

\* ------------------------------------------------ counter claims (SpecCount)

PoopsInRange ==
    /\ \A k \in DOMAIN user_states : user_states[k].poops_n \in 0..PoopsCap
    /\ \A k \in DOMAIN cb.states : cb.states[k].poops_n \in 0..PoopsCap

\* What apply_plus / apply_minus did in a step of the callback that ran one
\* of them, against the rows the step started from.
AppliedByOne ==
    (cb.pc = "idle" /\ cb'.pc = "answer" /\ cb'.data # "q1:remind") =>
        LET u == cb'.user
            had_row == <<Q1Session, u>> \in DOMAIN user_states
            before == poops_of(user_states, Q1Session, u)
            after == poops_of(cb'.states, Q1Session, u)
            rejected == IF cb'.data = "q1:plus" THEN before >= PoopsCap
                        ELSE ~had_row \/ before <= 0
        IN /\ cb'.ok = ~rejected
           /\ rejected => /\ after = before
                          /\ cb'.events = poop_events
                          /\ (cb'.data = "q1:minus" => cb'.states = user_states)
           /\ ~rejected => after = (IF cb'.data = "q1:plus" THEN before + 1 ELSE before - 1)
           /\ \A k \in DOMAIN cb'.states :
                 k # <<Q1Session, u>> => (k \in DOMAIN user_states /\ cb'.states[k] = user_states[k])

\* The commit stores the counters the callback left in its session.
CommitsApplied ==
    (cb.pc = "answer" /\ cb'.pc = "idle" /\ cb'.data # "none") => user_states' = cb.states

\* Claim C38: 0 <= poops_n <= 10 for every (session, user) in every reachable
\* state: apply_plus at 10 and apply_minus at 0 or with no row are rejected
\* and leave poops_n and the events as they were; an accepted plus adds
\* exactly 1 and an accepted minus subtracts exactly 1.
Thm_C38_CounterRange == []PoopsInRange /\ [][AppliedByOne /\ CommitsApplied]_vars

\* A plus pressed at poops_n = 10 has been rejected, while another user has
\* no row or a counter of 0.
Wit_C38_CounterRange ==
    /\ cb.pc = "answer"
    /\ cb.data = "q1:plus"
    /\ ~cb.ok
    /\ poops_of(user_states, Q1Session, cb.user) = PoopsCap
    /\ \E v \in Pressers \ {cb.user} : poops_of(user_states, Q1Session, v) = 0

\* A Q1 callback completes: its transaction is committed.
CallbackCompletes == cb.pc = "answer" /\ cb'.pc = "idle" /\ cb'.data # "none"

EventsMatchCounter ==
    CallbackCompletes =>
        /\ event_numbers(poop_events', Q1Session, cb.user)
              = 1..poops_of(user_states', Q1Session, cb.user)
        /\ \A r \in poop_events' :
              r.user_id # cb.user => r \in poop_events
        /\ \A r \in poop_events :
              r.user_id # cb.user => r \in poop_events'

\* Claim C39: after every completed Q1 callback on an active session the
\* acting user's PoopEvent numbers for the session are exactly 1..poops_n:
\* no gap and no event numbered above poops_n (a number occurs once: the rows
\* are unique on session_id, user_id, event_n).
Thm_C39_EventsMatchCounter == [][EventsMatchCounter]_vars

\* An accepted minus has left its user at poops_n = 1 with the event 1,
\* while the other user's counter of 2 still has no event.
Wit_C39_EventsMatchCounter ==
    /\ cb.pc = "idle"
    /\ cb.data = "q1:minus"
    /\ cb.ok
    /\ poops_of(user_states, Q1Session, cb.user) = 1
    /\ event_numbers(poop_events, Q1Session, cb.user) = {1}
    /\ \E v \in Pressers \ {cb.user} :
         /\ poops_of(user_states, Q1Session, v) = 2
         /\ event_numbers(poop_events, Q1Session, v) = {}
====
